---------------------------- MODULE Spec2Model ----------------------------
(***************************************************************************)
(* Model of the romaji matching engine (KeyProcessor), the word selection  *)
(* policy (HiraTangoSelecter), the enemy coordinator (Enemies) and the     *)
(* battle tick (Battle) of pygame-typing.                                  *)
(*                                                                         *)
(* A romaji string is a sequence of one-character strings.  A graph node   *)
(* is an integer id; the romajis and successors of the nodes of a word's   *)
(* graph are given by GraphOf.  The vocabulary pickle and the two kana     *)
(* tables are data files of the game; the model uses a small vocabulary    *)
(* that follows the usual romanization rules.                              *)
(***************************************************************************)
EXTENDS Integers, Sequences, FiniteSets, TLC

(***************************************************************************)
(* Sizes.  The game runs at 60 frames a second for 120 seconds with five   *)
(* lives; the model keeps the structure of the frame counts and scales     *)
(* them down.                                                              *)
(***************************************************************************)
\* the measured frames per second (Utils.mesure_fps)
FPS == 1
\* Battle._battle_seconds, scaled
BattleSeconds == 6
\* Earth._max_health, scaled
MaxHealth == 2
\* the longest way of a meteor to the earth, in moves
MaxPopDist == 5
\* the most key-down events of one frame
MaxEvents == 1
\* the most key-down events of one frame where the frames bring the keys of
\* one word only
MaxInputEvents == 2
\* the frames of a battle that bring that many events
MaxInputFrames == 3
\* the most correct and the most incorrect keys counted when calc_accuracy
\* is called
MaxCount == 10

(***************************************************************************)
(* Sequence helpers (Python str / list primitives)                         *)
(***************************************************************************)
\* str.startswith
StartsWith(s, p) == Len(p) <= Len(s) /\ SubSeq(s, 1, Len(p)) = p

\* x in list
InSeq(x, s) == \E i \in 1..Len(s) : s[i] = x

SeqToSet(s) == {s[i] : i \in 1..Len(s)}

\* list(a_set): some fixed order of the elements
RECURSIVE SetToSeq(_)
SetToSeq(S) ==
    IF S = {} THEN <<>>
    ELSE LET x == CHOOSE y \in S : TRUE IN <<x>> \o SetToSeq(S \ {x})

(***************************************************************************)
(* Vocabulary data                                                         *)
(***************************************************************************)
START == 0
END == -1

\* the label 'end' of the end node, iterated character by character
EndLabel == << <<"e">>, <<"n">>, <<"d">> >>

N_ALTS == << <<"n">>, <<"n", "n">>, <<"x", "n">> >>
NN_ALTS == << <<"n", "n">>, <<"x", "n">> >>

Words == {"a", "ai", "anko", "anna", "kai", "sya", "sei"}

\* the romanization graphs of the vocabulary: for every word the romajis
\* of every token node and the ordered successor list of every node
Graphs ==
    ("ai" :>
        [romajis |-> (1 :> << <<"a">> >>) @@ (2 :> << <<"i">> >>),
         succ |-> (START :> <<1>>) @@ (1 :> <<2>>) @@ (2 :> <<END>>)
                  @@ (END :> <<>>)])
    @@ ("anko" :>
        [romajis |-> (1 :> << <<"a">> >>) @@ (2 :> N_ALTS)
                     @@ (3 :> << <<"k", "o">>, <<"c", "o">> >>),
         succ |-> (START :> <<1>>) @@ (1 :> <<2>>) @@ (2 :> <<3>>)
                  @@ (3 :> <<END>>) @@ (END :> <<>>)])
    @@ ("anna" :>
        [romajis |-> (1 :> << <<"a">> >>) @@ (2 :> NN_ALTS)
                     @@ (3 :> << <<"n", "a">> >>),
         succ |-> (START :> <<1>>) @@ (1 :> <<2>>) @@ (2 :> <<3>>)
                  @@ (3 :> <<END>>) @@ (END :> <<>>)])
    @@ ("kai" :>
        [romajis |-> (1 :> << <<"k", "a">>, <<"c", "a">> >>)
                     @@ (2 :> << <<"i">> >>),
         succ |-> (START :> <<1>>) @@ (1 :> <<2>>) @@ (2 :> <<END>>)
                  @@ (END :> <<>>)])
    @@ ("sya" :>
        [romajis |-> (1 :> << <<"s", "i">>, <<"s", "h", "i">>,
                              <<"c", "i">> >>)
                     @@ (2 :> << <<"s", "y", "a">>, <<"s", "h", "a">> >>)
                     @@ (3 :> << <<"x", "y", "a">> >>),
         succ |-> (START :> <<1, 2>>) @@ (1 :> <<3>>) @@ (2 :> <<END>>)
                  @@ (3 :> <<END>>) @@ (END :> <<>>)])
    @@ ("sei" :>
        [romajis |-> (1 :> << <<"s", "e">> >>)
                     @@ (2 :> << <<"i">> >>),
         succ |-> (START :> <<1>>) @@ (1 :> <<2>>) @@ (2 :> <<END>>)
                  @@ (END :> <<>>)])
    @@ ("a" :>
        [romajis |-> (1 :> << <<"a">> >>),
         succ |-> (START :> <<1>>) @@ (1 :> <<END>>) @@ (END :> <<>>)])

GraphOf(w) == Graphs[w]

\* node[0] of a node of the graph of w
Romajis(w, n) == IF n = END THEN EndLabel ELSE GraphOf(w).romajis[n]

\* list(graph.successors(node))
Successors(w, n) == GraphOf(w).succ[n]

\* every key a vocabulary word can ask for, and one key no word asks for
Keys == {"a", "i", "n", "x", "k", "c", "o", "s", "h", "y", "e", "d", "r"}

\* the keys pressed during a battle: the keys that lock, continue and
\* complete words of every first kana, the restart key 'r' that no word asks
\* for, and the letters of the end node's label
BattleKeys == {"a", "i", "n", "k", "c", "s", "e", "r"}

\* hira_tango[0]: the first kana of a word
FirstHira(w) ==
    CASE w \in {"a", "ai", "anko", "anna"} -> "a"
      [] w = "kai" -> "ka"
      [] w = "sya" -> "si"
      [] w = "sei" -> "se"

\* same_first_hira_tangos_dic: the words of every first kana, in key order
FirstHiras == <<"a", "ka", "si", "se">>

same_first_hira_tangos_dic ==
    ("a" :> <<"a", "ai", "anko", "anna">>) @@ ("ka" :> <<"kai">>)
    @@ ("si" :> <<"sya">>) @@ ("se" :> <<"sei">>)

\* incompatible_hira_dic: for a kana, the kanas that share a first key with
\* it ("ka" and "si" share 'c', "si" and "se" share 's', "ka" and "se" share
\* none); "ki" has no word in the vocabulary
incompatible_hira_dic ==
    ("ka" :> <<"ki", "si">>) @@ ("ki" :> <<"ka">>)
    @@ ("si" :> <<"ka", "se">>) @@ ("se" :> <<"si">>)

(***************************************************************************)
(* KeyProcessor                                                            *)
(***************************************************************************)
NoErr == "ok"

\* KeyProcessor._update_now_nodes
update_now_nodes(p, pre_node) ==
    [p EXCEPT !.now_nodes = Successors(p.word, pre_node),
              !.assumed_keys = IF Successors(p.word, pre_node) = <<END>>
                               THEN <<>> ELSE @]

\* the first strictly shortest of a list of paths; <<>> for an empty list
RECURSIVE FirstShortest(_, _)
FirstShortest(paths, best) ==
    IF paths = <<>> THEN best
    ELSE FirstShortest(Tail(paths),
                       IF best = <<>> \/ Len(Head(paths)) < Len(best)
                       THEN Head(paths) ELSE best)

\* nx.shortest_path(graph, node, end) on the acyclic graph of w, and the
\* same for every node of a list
RECURSIVE ShortestFrom(_, _), ShortestFromAll(_, _)
ShortestFrom(w, n) ==
    IF n = END THEN <<END>>
    ELSE <<n>> \o FirstShortest(ShortestFromAll(w, Successors(w, n)), <<>>)

ShortestFromAll(w, ns) ==
    IF ns = <<>> THEN <<>>
    ELSE <<ShortestFrom(w, Head(ns))>> \o ShortestFromAll(w, Tail(ns))

\* KeyProcessor._find_shortest_path; <<>> stands for the unbound local
\* variable left by a loop over an empty node list
find_shortest_path(p) ==
    FirstShortest(ShortestFromAll(p.word, p.now_nodes), <<>>)

\* node[0][-1] for every node of a list
RECURSIVE LastRomajis(_, _)
LastRomajis(w, ns) ==
    IF ns = <<>> THEN <<>>
    ELSE Romajis(w, Head(ns))[Len(Romajis(w, Head(ns)))]
         \o LastRomajis(w, Tail(ns))

\* node[0][0] for every node of a list
RECURSIVE FirstRomajis(_, _)
FirstRomajis(w, ns) ==
    IF ns = <<>> THEN <<>>
    ELSE Romajis(w, Head(ns))[1] \o FirstRomajis(w, Tail(ns))

\* build_assumed_keys leaving out the first node of the path also when no
\* romaji is passed
build_assumed_keys_skip_first(p, path, romaji) ==
    IF romaji # <<>>
    THEN [p EXCEPT !.assumed_keys =
              SubSeq(romaji, Len(p.keys_for_now_node) + 1, Len(romaji))
              \o FirstRomajis(p.word, SubSeq(path, 2, Len(path) - 1))]
    ELSE [p EXCEPT !.assumed_keys =
              FirstRomajis(p.word, SubSeq(path, 2, Len(path) - 1))]

\* KeyProcessor._build_assumed_keys; romaji = <<>> stands for None
build_assumed_keys(p, path, romaji) ==
    IF romaji # <<>>
    THEN [p EXCEPT !.assumed_keys =
              SubSeq(romaji, Len(p.keys_for_now_node) + 1, Len(romaji))
              \o FirstRomajis(p.word, SubSeq(path, 2, Len(path) - 1))]
    ELSE [p EXCEPT !.assumed_keys =
              FirstRomajis(p.word, SubSeq(path, 1, Len(path) - 1))]

\* the first romaji of a list that starts with keys; <<>> if there is none
RECURSIVE FirstStartingWith(_, _)
FirstStartingWith(romajis, keys) ==
    IF romajis = <<>> THEN <<>>
    ELSE IF StartsWith(Head(romajis), keys) THEN Head(romajis)
    ELSE FirstStartingWith(Tail(romajis), keys)

\* KeyProcessor._update_assumed_keys, the loop over the romajis of the first
\* node of the path: builds for the first romaji found and breaks
assumed_keys_for_romaji(p, shortest_path, romaji) ==
    IF romaji = <<>> THEN p
    ELSE build_assumed_keys(p, shortest_path, romaji)

\* KeyProcessor._update_assumed_keys from the shortest path on
assumed_keys_for_path(p, shortest_path) ==
    IF shortest_path = <<>> THEN [p EXCEPT !.err = "UnboundLocalError"]
    ELSE IF p.keys_for_now_node # <<>>
    THEN assumed_keys_for_romaji(
             p, shortest_path,
             FirstStartingWith(Romajis(p.word, shortest_path[1]),
                               p.keys_for_now_node))
    ELSE build_assumed_keys(p, shortest_path, <<>>)

\* KeyProcessor._update_assumed_keys
update_assumed_keys(p) == assumed_keys_for_path(p, find_shortest_path(p))

\* the romajis of the nodes of a list that start with keys
RECURSIVE RomajisStartingWith(_, _, _)
RomajisStartingWith(w, ns, keys) ==
    IF ns = <<>> THEN {}
    ELSE {r \in SeqToSet(Romajis(w, Head(ns))) : StartsWith(r, keys)}
         \cup RomajisStartingWith(w, Tail(ns), keys)

\* _update_accepting_keys that never appends the 'n' of a set flag
accepting_keys_of_unflagged(p, romajis) ==
    IF \E r \in romajis : Len(r) <= Len(p.keys_for_now_node)
    THEN [p EXCEPT !.err = "IndexError"]
    ELSE [p EXCEPT !.accepting_keys =
              SetToSeq({r[Len(p.keys_for_now_node) + 1] : r \in romajis})]

\* KeyProcessor._update_accepting_keys from the romajis that start with the
\* keys typed for the current node
accepting_keys_of(p, romajis) ==
    IF \E r \in romajis : Len(r) <= Len(p.keys_for_now_node)
    THEN [p EXCEPT !.err = "IndexError"]
    ELSE [p EXCEPT !.accepting_keys =
              SetToSeq({r[Len(p.keys_for_now_node) + 1] : r \in romajis})
              \o (IF p.allow_n THEN <<"n">> ELSE <<>>)]

\* KeyProcessor._update_accepting_keys
update_accepting_keys(p) ==
    accepting_keys_of(
        p, RomajisStartingWith(p.word, p.now_nodes, p.keys_for_now_node))

\* prepare_for_next_nodes assigning the confirmed text instead of extending it
prepare_for_next_nodes_assign(p, dummy_keys, pre_node) ==
    [update_now_nodes([p EXCEPT !.confirmed_nodes_keys = dummy_keys],
                      pre_node)
       EXCEPT !.keys_for_now_node = <<>>]

\* KeyProcessor._prepare_for_next_nodes
prepare_for_next_nodes(p, dummy_keys, pre_node) ==
    [update_now_nodes([p EXCEPT !.confirmed_nodes_keys = @ \o dummy_keys],
                      pre_node)
       EXCEPT !.keys_for_now_node = <<>>]

\* _process_for_now_nodes that leaves _now_nodes as it is
process_for_now_nodes_unfiltered(p, dummy_keys, now_nodes) ==
    [p EXCEPT !.keys_for_now_node = dummy_keys]

\* KeyProcessor._process_for_now_nodes
process_for_now_nodes(p, dummy_keys, now_nodes) ==
    [p EXCEPT !.keys_for_now_node = dummy_keys, !.now_nodes = now_nodes]

\* the nodes of a list that have a romaji starting with dummy_keys, in list
\* order
RECURSIVE FilterNodes(_, _, _)
FilterNodes(w, ns, dummy_keys) ==
    IF ns = <<>> THEN <<>>
    ELSE IF \E j \in 1..Len(Romajis(w, Head(ns))) :
                StartsWith(Romajis(w, Head(ns))[j], dummy_keys)
    THEN <<Head(ns)>> \o FilterNodes(w, Tail(ns), dummy_keys)
    ELSE FilterNodes(w, Tail(ns), dummy_keys)

\* the first node of a list that has the romaji dummy_keys, as a one-element
\* list; <<>> if there is none
RECURSIVE FirstExactNode(_, _, _)
FirstExactNode(w, ns, dummy_keys) ==
    IF ns = <<>> THEN <<>>
    ELSE IF InSeq(dummy_keys, Romajis(w, Head(ns))) THEN <<Head(ns)>>
    ELSE FirstExactNode(w, Tail(ns), dummy_keys)

\* KeyProcessor._process_dummy_keys, the statement after the loop for the
\* nodes the loop collected
continue_now_nodes(p, dummy_keys, now_nodes) ==
    IF now_nodes # <<>> THEN process_for_now_nodes(p, dummy_keys, now_nodes)
    ELSE p

\* the loop over _now_nodes without the branch of an equal romaji
loop_over_now_nodes_prefix_only(p, dummy_keys, exact) ==
    continue_now_nodes(p, dummy_keys,
                       FilterNodes(p.word, p.now_nodes, dummy_keys))

\* KeyProcessor._process_dummy_keys, the loop over _now_nodes and the
\* statement after it; exact holds the node the loop breaks on
loop_over_now_nodes(p, dummy_keys, exact) ==
    IF exact # <<>>
    THEN prepare_for_next_nodes(
             IF InSeq(<<"n", "n">>, Romajis(p.word, exact[1]))
             THEN [p EXCEPT !.allow_n = TRUE] ELSE p,
             dummy_keys, exact[1])
    ELSE continue_now_nodes(p, dummy_keys,
                            FilterNodes(p.word, p.now_nodes, dummy_keys))

\* KeyProcessor._process_dummy_keys, the call of _update_assumed_keys, which
\* is not reached when _update_accepting_keys has raised
then_update_assumed_keys(p) ==
    IF p.err # NoErr THEN p ELSE update_assumed_keys(p)

\* KeyProcessor._process_dummy_keys
process_dummy_keys(p, dummy_keys) ==
    then_update_assumed_keys(
        update_accepting_keys(
            loop_over_now_nodes(
                p, dummy_keys,
                FirstExactNode(p.word, p.now_nodes, dummy_keys))))

\* KeyProcessor.__init__
NewKeyProcessor(w) ==
    update_accepting_keys(
        update_assumed_keys(
            update_now_nodes(
                [word |-> w,
                 keys_for_now_node |-> <<>>,
                 confirmed_nodes_keys |-> <<>>,
                 now_nodes |-> <<>>,
                 assumed_keys |-> <<>>,
                 allow_n |-> FALSE,
                 accepting_keys |-> <<>>,
                 err |-> NoErr],
                START)))

\* the value returned by check_key: the pair (confirmed_keys, assumed_keys),
\* isNone when the pair is (None, None); sound is the sound played
Rejected == [isNone |-> TRUE, confirmed |-> <<>>, assumed |-> <<>>]

\* the wrong-key branch also dropping the keys typed for the current node
check_key_wrong_reset(p) ==
    [kp |-> [p EXCEPT !.keys_for_now_node = <<>>],
     ret |-> Rejected, sound |-> "wrong"]

\* the else branch of check_key playing no sound
check_key_wrong_silent(p) == [kp |-> p, ret |-> Rejected, sound |-> "none"]

\* KeyProcessor.check_key, the branch taken for a key that is not accepted
check_key_wrong(p) == [kp |-> p, ret |-> Rejected, sound |-> "wrong"]

\* the flag handling that drops the appended 'n' but leaves _allow_n set
clear_allow_n_pop_only(p) ==
    [p EXCEPT !.accepting_keys = SubSeq(@, 1, Len(@) - 1)]

\* KeyProcessor.check_key, the two statements run when _allow_n is set:
\* clear the flag and pop the appended 'n'
clear_allow_n(p) ==
    [p EXCEPT !.allow_n = FALSE,
              !.accepting_keys = SubSeq(@, 1, Len(@) - 1)]

\* KeyProcessor.check_key, the early return for the second 'n': p has the
\* 'n' appended to _confirmed_nodes_keys
check_key_second_n(p) ==
    [kp |-> p,
     ret |-> [isNone |-> FALSE,
              confirmed |-> p.confirmed_nodes_keys,
              assumed |-> p.assumed_keys],
     sound |-> "none"]

\* KeyProcessor.check_key, the statements after _process_dummy_keys
check_key_correct(p) ==
    [kp |-> p,
     ret |-> [isNone |-> FALSE,
              confirmed |-> p.confirmed_nodes_keys \o p.keys_for_now_node,
              assumed |-> p.assumed_keys],
     sound |-> "correct"]

\* check_key without the early return for the second 'n'
check_key_without_second_n(p, key) ==
    IF InSeq(key, p.accepting_keys)
    THEN check_key_correct(
             process_dummy_keys(IF p.allow_n THEN clear_allow_n(p) ELSE p,
                                Append(p.keys_for_now_node, key)))
    ELSE check_key_wrong(p)

\* KeyProcessor.check_key
check_key(p, key) ==
    IF InSeq(key, p.accepting_keys)
    THEN IF p.allow_n /\ Append(p.keys_for_now_node, key) = <<"n">>
         THEN check_key_second_n(
                  [clear_allow_n(p) EXCEPT !.confirmed_nodes_keys =
                       @ \o Append(p.keys_for_now_node, key)])
         ELSE check_key_correct(
                  process_dummy_keys(
                      IF p.allow_n THEN clear_allow_n(p) ELSE p,
                      Append(p.keys_for_now_node, key)))
    ELSE check_key_wrong(p)

(***************************************************************************)
(* HiraTangoSelecter                                                       *)
(***************************************************************************)
\* the entries of a tuple that are first kanas of the vocabulary
RECURSIVE InVocabulary(_)
InVocabulary(hs) ==
    IF hs = <<>> THEN <<>>
    ELSE IF Head(hs) \in DOMAIN same_first_hira_tangos_dic
         THEN <<Head(hs)>> \o InVocabulary(Tail(hs))
         ELSE InVocabulary(Tail(hs))

\* HiraTangoSelecter._setup_incompatible_hira_dic: the keys of
\* _incompatible_hira_dic; every value stored is a generator over the
\* compatitors of the key
IncompatibleKeys ==
    DOMAIN incompatible_hira_dic \cap DOMAIN same_first_hira_tangos_dic

\* what the generator stored for hira yields from its first item on
Compatitors(hira) == InVocabulary(incompatible_hira_dic[hira])

\* the items a for loop over _incompatible_hira_dic[hira] gets: a generator
\* yields its items to the first loop over it and nothing afterwards
incompatible_hiras(s, hira) ==
    IF hira \in s.fresh THEN Compatitors(hira) ELSE <<>>

\* a list of kanas as the bag of its entries: the order of
\* _selectable_first_hiras is read by random.choice only, which may return
\* the entry at any position
RECURSIVE BagOf(_)
BagOf(hs) ==
    IF hs = <<>> THEN [h \in SeqToSet(FirstHiras) |-> 0]
    ELSE [BagOf(Tail(hs)) EXCEPT ![Head(hs)] = @ + 1]

\* the kanas random.choice(_selectable_first_hiras) can return
Selectable(s) ==
    {h \in DOMAIN s.selectable_first_hiras : s.selectable_first_hiras[h] > 0}

\* HiraTangoSelecter.__init__
NewHiraTangoSelecter ==
    [selectable_first_hiras |-> BagOf(FirstHiras),
     unselectable_first_hiras_dic |-> <<>>,
     fresh |-> IncompatibleKeys,
     err |-> NoErr]

\* the dict with the entries of d for the keys of a list
RECURSIVE DictOf(_, _)
DictOf(d, ks) ==
    IF ks = <<>> THEN <<>>
    ELSE (Head(ks) :> d[Head(ks)]) @@ DictOf(d, Tail(ks))

\* dict.pop(key)
DictPop(d, k) == DictOf(d, SetToSeq(DOMAIN d \ {k}))

\* regulate_selection_targets leaving a newly counted kana in the list
regulate_selection_targets_keep(s, hira) ==
    IF s.err # NoErr THEN s
    ELSE IF hira \notin DOMAIN s.unselectable_first_hiras_dic
    THEN [s EXCEPT !.unselectable_first_hiras_dic = (hira :> 1) @@ @]
    ELSE [s EXCEPT !.unselectable_first_hiras_dic[hira] = @ + 1]

\* regulate_selection_targets that marks a kana without counting
regulate_selection_targets_mark(s, hira) ==
    IF s.err # NoErr THEN s
    ELSE IF hira \notin DOMAIN s.unselectable_first_hiras_dic
    THEN IF hira \notin Selectable(s)
         THEN [s EXCEPT !.err = "ValueError"]
         ELSE [s EXCEPT !.unselectable_first_hiras_dic = (hira :> 1) @@ @,
                        !.selectable_first_hiras[hira] = @ - 1]
    ELSE s

\* HiraTangoSelecter._regulate_selection_targets
regulate_selection_targets(s, hira) ==
    IF s.err # NoErr THEN s
    ELSE IF hira \notin DOMAIN s.unselectable_first_hiras_dic
    THEN IF hira \notin Selectable(s)
         THEN [s EXCEPT !.err = "ValueError"]
         ELSE [s EXCEPT !.unselectable_first_hiras_dic = (hira :> 1) @@ @,
                        !.selectable_first_hiras[hira] = @ - 1]
    ELSE [s EXCEPT !.unselectable_first_hiras_dic[hira] = @ + 1]

\* _add_hira_to_selectable_first_hiras that keeps the entry of a kana it
\* puts back into the list
add_hira_to_selectable_first_hiras_no_pop(s, hira) ==
    IF s.err # NoErr THEN s
    ELSE IF hira \notin DOMAIN s.unselectable_first_hiras_dic
    THEN [s EXCEPT !.err = "KeyError"]
    ELSE IF s.unselectable_first_hiras_dic[hira] = 1
    THEN [s EXCEPT !.selectable_first_hiras[hira] = @ + 1]
    ELSE [s EXCEPT !.unselectable_first_hiras_dic[hira] = @ - 1]

\* HiraTangoSelecter._add_hira_to_selectable_first_hiras
add_hira_to_selectable_first_hiras(s, hira) ==
    IF s.err # NoErr THEN s
    ELSE IF hira \notin DOMAIN s.unselectable_first_hiras_dic
    THEN [s EXCEPT !.err = "KeyError"]
    ELSE IF s.unselectable_first_hiras_dic[hira] = 1
    THEN [s EXCEPT !.selectable_first_hiras[hira] = @ + 1,
                   !.unselectable_first_hiras_dic = DictPop(@, hira)]
    ELSE [s EXCEPT !.unselectable_first_hiras_dic[hira] = @ - 1]

RECURSIVE RegulateAll(_, _)
RegulateAll(s, hs) ==
    IF hs = <<>> THEN s
    ELSE RegulateAll(regulate_selection_targets(s, Head(hs)), Tail(hs))

RECURSIVE DeregulateAll(_, _)
DeregulateAll(s, hs) ==
    IF hs = <<>> THEN s
    ELSE DeregulateAll(add_hira_to_selectable_first_hiras(s, Head(hs)),
                       Tail(hs))

\* select without the loop over the incompatible kanas
select_incompatible_hiras_skipped(s, first_hira) == s

\* HiraTangoSelecter.select, the loop over the incompatible kanas of
\* first_hira
select_incompatible_hiras(s, first_hira) ==
    IF first_hira \in IncompatibleKeys
    THEN [RegulateAll(s, incompatible_hiras(s, first_hira))
            EXCEPT !.fresh = @ \ {first_hira}]
    ELSE s

\* select that does not restrict the kana it has chosen
select_unregulated(s, first_hira, hira_tango) ==
    select_incompatible_hiras(s, first_hira)

\* HiraTangoSelecter.select with the two random choices made: first_hira
\* among the selectable kanas and hira_tango among its words
select(s, first_hira, hira_tango) ==
    select_incompatible_hiras(regulate_selection_targets(s, first_hira),
                              first_hira)

\* HiraTangoSelecter.select when there is nothing to choose from:
\* random.choice of an empty list raises
select_from_empty(s) == [s EXCEPT !.err = "IndexError"]

\* HiraTangoSelecter.deregulate, the loop over the incompatible kanas of
\* first_hira
deregulate_incompatible_hiras(s, first_hira) ==
    IF s.err = NoErr /\ first_hira \in IncompatibleKeys
    THEN [DeregulateAll(s, incompatible_hiras(s, first_hira))
            EXCEPT !.fresh = @ \ {first_hira}]
    ELSE s

\* HiraTangoSelecter.deregulate
deregulate(s, first_hira) ==
    deregulate_incompatible_hiras(
        add_hira_to_selectable_first_hiras(s, first_hira), first_hira)

(***************************************************************************)
(* Enemy                                                                   *)
(***************************************************************************)
\* Meteor._point
point == 100

\* EnemyMaker.make / Enemy.__init__; dist is the number of Meteor._move
\* steps between the pop position and the earth
NewEnemy(id, hira_tango, dist) ==
    [id |-> id,
     word |-> hira_tango,
     first_hira |-> FirstHira(hira_tango),
     kp |-> NewKeyProcessor(hira_tango),
     dist |-> dist]

\* the Sound.play() calls of a check_key call
Played(sound) == IF sound = "none" THEN <<>> ELSE <<sound>>

\* Enemy.process_key from the value c of KeyProcessor.check_key on: the
\* enemy afterwards and what is returned, kind "True", "False" or "point"
\* (the int Meteor.point)
enemy_process_key_return(enemy, c) ==
    IF ~c.ret.isNone /\ c.ret.assumed # <<>>
    THEN [enemy |-> [enemy EXCEPT !.kp = c.kp], kind |-> "True",
          value |-> 1, sound |-> Played(c.sound)]
    ELSE IF ~c.ret.isNone
    THEN [enemy |-> [enemy EXCEPT !.kp = c.kp], kind |-> "point",
          value |-> point, sound |-> Played(c.sound)]
    ELSE [enemy |-> [enemy EXCEPT !.kp = c.kp], kind |-> "False",
          value |-> 0, sound |-> Played(c.sound)]

\* Enemy.process_key
enemy_process_key(enemy, key) ==
    enemy_process_key_return(enemy, check_key(enemy.kp, key))

\* Enemy.update / Meteor.update: one move towards the earth; collided when
\* the meteor's rect reaches the earth's
enemy_update(enemy) ==
    [enemy |-> [enemy EXCEPT !.dist = IF @ > 0 THEN @ - 1 ELSE 0],
     collided |-> enemy.dist <= 1]

(***************************************************************************)
(* Enemies                                                                 *)
(***************************************************************************)
None == 0

\* the position in _enemies of the enemy object id, 0 if it is not there
IndexOf(en, id) ==
    IF \E i \in 1..Len(en.enemies) : en.enemies[i].id = id
    THEN CHOOSE i \in 1..Len(en.enemies) : en.enemies[i].id = id
    ELSE 0

\* the enemy objects some reference of Enemies still points to
LiveIds(en) ==
    {en.enemies[i].id : i \in 1..Len(en.enemies)}
    \cup {en.first_keys_dic[k] : k \in DOMAIN en.first_keys_dic}
    \cup ({en.inputting_enemy} \ {None})

\* the identity of a newly constructed enemy object
FreshId(en) == CHOOSE id \in 1..(Cardinality(LiveIds(en)) + 1) :
                  id \notin LiveIds(en)

\* Enemies.__init__ followed by Enemies.reset
NewEnemies ==
    [hira_tango_selecter |-> NewHiraTangoSelecter,
     enemies |-> <<>>,
     first_keys_dic |-> <<>>,
     inputting_enemy |-> None,
     correct_count |-> 0,
     incorrect_count |-> 0,
     err |-> NoErr]

RECURSIVE DictSetAll(_, _, _)
DictSetAll(d, ks, v) ==
    IF ks = <<>> THEN d
    ELSE DictSetAll((Head(ks) :> v) @@ d, Tail(ks), v)

\* Enemies._extend_first_keys_dic
extend_first_keys_dic(en, enemy) ==
    [en EXCEPT !.first_keys_dic = DictSetAll(@, enemy.kp.accepting_keys,
                                             enemy.id)]

\* Enemies._contract_first_keys_dic
RECURSIVE contract_first_keys_dic(_, _)
contract_first_keys_dic(en, remove_keys) ==
    IF en.err # NoErr \/ remove_keys = <<>> THEN en
    ELSE IF Head(remove_keys) \notin DOMAIN en.first_keys_dic
    THEN [en EXCEPT !.err = "KeyError"]
    ELSE contract_first_keys_dic(
             [en EXCEPT !.first_keys_dic = DictPop(@, Head(remove_keys))],
             Tail(remove_keys))

\* Enemies after a call of a method of its selecter that left the selecter
\* as s
WithSelecter(en, s) ==
    [en EXCEPT !.hira_tango_selecter = s, !.err = s.err]

\* the call self._hira_tango_selecter.deregulate(first_hira)
call_deregulate(en, first_hira) ==
    IF en.err # NoErr THEN en
    ELSE WithSelecter(en, deregulate(en.hira_tango_selecter, first_hira))

\* Enemies.add, the statements after EnemyMaker.make
add_enemy(en, enemy) ==
    extend_first_keys_dic([en EXCEPT !.enemies = Append(@, enemy)], enemy)

\* Enemies.add, the statements after HiraTangoSelecter.select
add_hira_tango(en, id, hira_tango, dist) ==
    IF en.err # NoErr THEN en
    ELSE add_enemy(en, NewEnemy(id, hira_tango, dist))

\* Enemies.add on a frame that is not a spawn frame, or with the random
\* choices of a spawn made: first_hira, hira_tango and the pop position
add(en, frames, add_frames, first_hira, hira_tango, dist) ==
    IF frames % add_frames # 0 THEN en
    ELSE IF Selectable(en.hira_tango_selecter) = {}
    THEN WithSelecter(en, select_from_empty(en.hira_tango_selecter))
    ELSE add_hira_tango(
             WithSelecter(en, select(en.hira_tango_selecter, first_hira,
                                     hira_tango)),
             FreshId(en), hira_tango, dist)

\* list.remove(enemy) on _enemies, the enemy being at position i
remove_at(en, i) ==
    IF i = 0 THEN [en EXCEPT !.err = "ValueError"]
    ELSE [en EXCEPT !.enemies = SubSeq(@, 1, i - 1)
                                \o SubSeq(@, i + 1, Len(@))]

\* list.remove(enemy) on _enemies
remove_enemy(en, id) ==
    IF en.err # NoErr THEN en ELSE remove_at(en, IndexOf(en, id))

\* kill_enemy removing the locked enemy without clearing _inputting_enemy
kill_enemy_keep_lock(en, enemy) ==
    IF en.err # NoErr THEN en
    ELSE IF enemy.id = en.inputting_enemy
    THEN remove_enemy(en, enemy.id)
    ELSE remove_enemy(
             call_deregulate(
                 contract_first_keys_dic(en, enemy.kp.accepting_keys),
                 enemy.first_hira),
             enemy.id)

\* _kill_enemy releasing the exclusion of the locked enemy too
kill_enemy_release_locked(en, enemy) ==
    IF en.err # NoErr THEN en
    ELSE IF enemy.id = en.inputting_enemy
    THEN remove_enemy(
             call_deregulate([en EXCEPT !.inputting_enemy = None],
                             enemy.first_hira),
             enemy.id)
    ELSE remove_enemy(
             call_deregulate(
                 contract_first_keys_dic(en, enemy.kp.accepting_keys),
                 enemy.first_hira),
             enemy.id)

\* Enemies._kill_enemy
kill_enemy(en, enemy) ==
    IF en.err # NoErr THEN en
    ELSE IF enemy.id = en.inputting_enemy
    THEN remove_enemy([en EXCEPT !.inputting_enemy = None], enemy.id)
    ELSE remove_enemy(
             call_deregulate(
                 contract_first_keys_dic(en, enemy.kp.accepting_keys),
                 enemy.first_hira),
             enemy.id)

\* process_for_new_inputting_enemy leaving the first keys of the enemy in
\* _first_keys_dic
process_for_new_inputting_enemy_keep_keys(en) ==
    LET enemy == en.enemies[IndexOf(en, en.inputting_enemy)] IN
    call_deregulate(en, enemy.first_hira)

\* Enemies._process_for_new_inputting_enemy
process_for_new_inputting_enemy(en) ==
    LET enemy == en.enemies[IndexOf(en, en.inputting_enemy)] IN
    call_deregulate(contract_first_keys_dic(en, enemy.kp.accepting_keys),
                    enemy.first_hira)

\* the enemy object at position i of _enemies replaced by its new state
SetEnemy(en, i, enemy) ==
    [en EXCEPT !.enemies[i] = enemy,
               !.err = IF enemy.kp.err # NoErr THEN enemy.kp.err ELSE @]

\* what the model records of a call of Enemies._process_key: Enemies
\* afterwards, the value returned (0 for None), the branch taken, what
\* Enemy.process_key returned ("raised" when the call raised) and the sounds
\* played
Keyed(en, ret, branch, kind, sounds) ==
    [en |-> en, ret |-> ret, branch |-> branch, kind |-> kind,
     sounds |-> sounds]

\* the branch of a locked enemy counting a rejected key twice
process_key_inputting_result_miss_twice(en, r) ==
    IF en.err # NoErr
    THEN Keyed(en, None, "inputting", "raised", <<>>)
    ELSE IF r.value # 0
    THEN IF r.kind = "point"
         THEN Keyed(kill_enemy([en EXCEPT !.correct_count = @ + 1], r.enemy),
                    r.value, "inputting", r.kind, r.sound)
         ELSE Keyed([en EXCEPT !.correct_count = @ + 1], None, "inputting",
                    r.kind, r.sound)
    ELSE Keyed([en EXCEPT !.incorrect_count = @ + 2], None, "inputting",
               r.kind, r.sound)

\* Enemies._process_key, the branch of a locked enemy from the result r of
\* its process_key on
process_key_inputting_result(en, r) ==
    IF en.err # NoErr
    THEN Keyed(en, None, "inputting", "raised", <<>>)
    ELSE IF r.value # 0
    THEN IF r.kind = "point"
         THEN Keyed(kill_enemy([en EXCEPT !.correct_count = @ + 1], r.enemy),
                    r.value, "inputting", r.kind, r.sound)
         ELSE Keyed([en EXCEPT !.correct_count = @ + 1], None, "inputting",
                    r.kind, r.sound)
    ELSE Keyed([en EXCEPT !.incorrect_count = @ + 1], None, "inputting",
               r.kind, r.sound)

\* Enemies._process_key, the branch of a locked enemy: r is what process_key
\* of the enemy at position i of _enemies made of it and returned
process_key_inputting_call(en, i, r) ==
    process_key_inputting_result(SetEnemy(en, i, r.enemy), r)

\* Enemies._process_key, the branch of a locked enemy, which is at position
\* i of _enemies (0: in no list any more)
process_key_inputting(en, key, i) ==
    IF i = 0
    THEN Keyed([en EXCEPT !.err = "DanglingEnemy"], None, "inputting",
               "raised", <<>>)
    ELSE process_key_inputting_call(en, i,
                                    enemy_process_key(en.enemies[i], key))

\* the branch of a first key tallying nothing
process_key_first_key_result_no_tally(en, r) ==
    IF en.err # NoErr
    THEN Keyed(en, None, "first_key", "raised", <<>>)
    ELSE Keyed(en, None, "first_key", r.kind, r.sound)

\* Enemies._process_key, the branch of a first key from the result r of
\* process_key on
process_key_first_key_result(en, r) ==
    IF en.err # NoErr
    THEN Keyed(en, None, "first_key", "raised", <<>>)
    ELSE Keyed([en EXCEPT !.correct_count = @ + 1], None, "first_key",
               r.kind, r.sound)

\* Enemies._process_key, the branch of a first key: r is what process_key
\* of the enemy at position i of _enemies made of it and returned
process_key_first_key_call(en, i, r) ==
    process_key_first_key_result(SetEnemy(en, i, r.enemy), r)

\* Enemies._process_key, the branch of a first key after
\* _process_for_new_inputting_enemy
process_key_first_key_locked(en, key, i) ==
    IF en.err # NoErr
    THEN Keyed(en, None, "first_key", "raised", <<>>)
    ELSE process_key_first_key_call(en, i,
                                    enemy_process_key(en.enemies[i], key))

\* Enemies._process_key, the branch of a first key, _inputting_enemy
\* assigned; the enemy is at position i of _enemies
process_key_first_key(en, key, i) ==
    IF i = 0
    THEN Keyed([en EXCEPT !.err = "DanglingEnemy"], None, "first_key",
               "raised", <<>>)
    ELSE process_key_first_key_locked(process_for_new_inputting_enemy(en),
                                      key, i)

\* _process_key looking the key up in _first_keys_dic before the lock
process_key_index_first(en, key) ==
    IF key \in DOMAIN en.first_keys_dic
    THEN process_key_first_key(
             [en EXCEPT !.inputting_enemy = en.first_keys_dic[key]], key,
             IndexOf(en, en.first_keys_dic[key]))
    ELSE IF en.inputting_enemy # None
    THEN process_key_inputting(en, key, IndexOf(en, en.inputting_enemy))
    ELSE Keyed([en EXCEPT !.incorrect_count = @ + 1], None, "no_enemy",
               "False", <<"wrong">>)

\* Enemies._process_key
process_key(en, key) ==
    IF en.inputting_enemy # None
    THEN process_key_inputting(en, key, IndexOf(en, en.inputting_enemy))
    ELSE IF key \in DOMAIN en.first_keys_dic
    THEN process_key_first_key(
             [en EXCEPT !.inputting_enemy = en.first_keys_dic[key]], key,
             IndexOf(en, en.first_keys_dic[key]))
    ELSE Keyed([en EXCEPT !.incorrect_count = @ + 1], None, "no_enemy",
               "False", <<"wrong">>)

\* the for loop of Enemies.update over _enemies, from list index i on; the
\* loop goes by index while _kill_enemy removes from the list it walks
RECURSIVE update_loop(_, _, _, _), update_loop_body(_, _, _, _, _)
update_loop(en, i, earth_damage, updated) ==
    IF en.err # NoErr \/ i > Len(en.enemies)
    THEN [en |-> en, earth_damage |-> earth_damage, updated |-> updated]
    ELSE update_loop_body(en, i, earth_damage, updated,
                          enemy_update(en.enemies[i]))

\* the body of the loop counting two units of damage for a collision
update_loop_body_twice(en, i, earth_damage, updated, u) ==
    IF u.collided
    THEN update_loop(kill_enemy([en EXCEPT !.enemies[i] = u.enemy], u.enemy),
                     i + 1, earth_damage + 2, updated \cup {u.enemy.id})
    ELSE update_loop([en EXCEPT !.enemies[i] = u.enemy], i + 1, earth_damage,
                     updated \cup {u.enemy.id})

\* the body of the loop for the enemy at index i, u being what its update
\* made of it and returned
update_loop_body(en, i, earth_damage, updated, u) ==
    IF u.collided
    THEN update_loop(kill_enemy([en EXCEPT !.enemies[i] = u.enemy], u.enemy),
                     i + 1, earth_damage + 1, updated \cup {u.enemy.id})
    ELSE update_loop([en EXCEPT !.enemies[i] = u.enemy], i + 1, earth_damage,
                     updated \cup {u.enemy.id})

\* Enemies.update, the return statement: k is the call of _process_key and l
\* the loop over _enemies
update_return(k, l) ==
    [en |-> l.en, earth_damage |-> l.earth_damage, point |-> k.ret,
     keyed |-> k, updated |-> l.updated]

\* Enemies.update from the loop over _enemies on
update_enemies(k) == update_return(k, update_loop(k.en, 1, 0, {}))

\* Enemies.update; key "" stands for None and for an empty unicode
update(en, key) ==
    update_enemies(IF key # "" THEN process_key(en, key)
                   ELSE Keyed(en, None, "no_key", "False", <<>>))

\* Enemies.finish: _kill_enemy for every enemy of a copy of the list
RECURSIVE kill_all(_, _)
kill_all(en, copy) ==
    IF copy = <<>> THEN en
    ELSE kill_all(kill_enemy(en, Head(copy)), Tail(copy))

\* finish leaving _inputting_enemy as it was
finish_keep_lock(en) ==
    [kill_all(en, en.enemies) EXCEPT !.inputting_enemy = en.inputting_enemy]

finish(en) == kill_all(en, en.enemies)

\* Enemies.reset
reset(en) == [en EXCEPT !.correct_count = 0, !.incorrect_count = 0]

\* round(x, 2) for the float x = dividend / divisor, in hundredths: the
\* nearest hundredth; a float of a quotient of fewer than 32 inputs is never
\* half-way between two hundredths, where round() goes to the even one
round_2(dividend, divisor) ==
    IF 2 * ((dividend * 100) % divisor) > divisor
       \/ (2 * ((dividend * 100) % divisor) = divisor
           /\ ((dividend * 100) \div divisor) % 2 = 1)
    THEN (dividend * 100) \div divisor + 1
    ELSE (dividend * 100) \div divisor

\* calc_accuracy cutting the third decimal place off instead of rounding
calc_accuracy_floor(en) ==
    IF en.correct_count + en.incorrect_count = 0 THEN 0
    ELSE (en.correct_count * 10000)
           \div (en.correct_count + en.incorrect_count)

\* Enemies.calc_accuracy, the float returned in hundredths (7000 for 70.0)
calc_accuracy(en) ==
    IF en.correct_count + en.incorrect_count = 0 THEN 0
    ELSE round_2(en.correct_count * 100,
                 en.correct_count + en.incorrect_count)

(***************************************************************************)
(* Battle                                                                  *)
(***************************************************************************)
\* Enemies._add_seconds
add_seconds == 2

\* Enemies._add_frames
add_frames == FPS * add_seconds

\* Battle._end_frames
end_frames == FPS * BattleSeconds

\* the ways of a meteor from its pop position to the earth
PopDists == {1, MaxPopDist}

\* Battle._accept_input: events is the list of the unicodes of the key-down
\* events of the frame; "" stands for None
accept_input(events) == IF events = <<>> THEN "" ELSE events[1]

\* Result.accept_input
result_accept_input(events) == InSeq("r", events)

\* check_finish looking at the frame count only
check_finish_time_only(b) == b.frames > end_frames

\* Battle._check_finish
check_finish(b) ==
    LET is_time_over == b.frames > end_frames
        is_earth_dead == b.health <= 0
    IN is_time_over \/ is_earth_dead

\* nothing updated: the frame ended before Enemies.update
NoUpdate(en) ==
    update_return(Keyed(en, None, "no_key", "False", <<>>),
                  [en |-> en, earth_damage |-> 0, updated |-> {}])

\* Battle._update, Earth.update and StatusBar.update with what
\* Enemies.update returned
battle_update_return(b, u) ==
    [b |-> [b EXCEPT !.en = u.en,
                     !.health = @ - u.earth_damage,
                     !.score = @ + u.point],
     u |-> u]

\* Battle._update: Enemies.update, Earth.update and StatusBar.update
battle_update(b, key) == battle_update_return(b, update(b.en, key))

\* Battle._build_result: score and residues handed to Result.build
build_result(b) == [score |-> b.score, residues |-> b.health]

\* Battle._finish, the call of _build_result; u is what _update did
battle_finish_result(b, u) == [b |-> b, u |-> u, result |-> build_result(b)]

\* Battle._finish, the statements after _update
battle_finish_enemies(r) ==
    battle_finish_result([r.b EXCEPT !.en = finish(@)], r.u)

\* Battle._finish
battle_finish(b) == battle_finish_enemies(battle_update(b, ""))

\* Battle._setup
battle_setup(b) ==
    [b EXCEPT !.frames = 0, !.en = reset(@), !.health = MaxHealth,
              !.score = 0, !.is_finish = FALSE]

\* Battle.__init__ followed by Battle.setup
NewBattle ==
    [frames |-> 0, en |-> NewEnemies, health |-> MaxHealth, score |-> 0,
     is_finish |-> FALSE]

\* no result built in this frame
NoBuiltResult == [score |-> 0, residues |-> 0]

\* what the model records of a call of Battle._battle: the battle
\* afterwards, what Enemies.update did, the path taken, the result built,
\* Enemies as it was when _update was called and the enemy that was the
\* value of _first_keys_dic under the key then (None if there was none)
Framed(b, u, path, result, mid, target) ==
    [b |-> b, u |-> u, path |-> path, result |-> result, mid |-> mid,
     target |-> target]

\* Battle._battle, the return of the dirty rects of _finish
battle_finished(f, mid) ==
    Framed(f.b, f.u, "finish", f.result, mid, None)

\* Battle._battle, the return at the end of a frame of battle; r is what
\* _update did
battle_updated(r, mid, target) ==
    Framed(r.b, r.u, "battle", NoBuiltResult, mid, target)

\* Battle._battle, the statements after Enemies.add
battle_input(b, key) ==
    IF b.en.err # NoErr
    THEN Framed(b, NoUpdate(b.en), "battle", NoBuiltResult, b.en, None)
    ELSE battle_updated(battle_update(b, key), b.en,
                        IF key \in DOMAIN b.en.first_keys_dic
                        THEN b.en.first_keys_dic[key] ELSE None)

\* Battle._battle, the statements after the frame count
battle_frame(b, events, first_hira, hira_tango, dist) ==
    IF check_finish(b)
    THEN battle_finished(battle_finish([b EXCEPT !.is_finish = TRUE]), b.en)
    ELSE battle_input([b EXCEPT !.en = add(@, b.frames, add_frames,
                                           first_hira, hira_tango, dist)],
                      accept_input(events))

\* Battle._battle with the random choices of a spawn made
battle(b, events, first_hira, hira_tango, dist) ==
    battle_frame([b EXCEPT !.frames = @ + 1], events, first_hira,
                 hira_tango, dist)

(***************************************************************************)
(* State                                                                   *)
(***************************************************************************)
VARIABLES
    proc,   \* a stand-alone KeyProcessor
    fed,    \* the keys passed to proc.check_key so far, while they spell
            \* the beginning of the word; OffPath afterwards
    res,    \* what the last check_key call returned
    prev,   \* proc as it was before the last check_key call
    hts,    \* a stand-alone HiraTangoSelecter
    held,   \* per word, how often select() returned it without a
            \* deregulate() of its first kana for it since
    htsEv,  \* the last call on hts: the method, the word select() returned
            \* with its first kana or the kana passed to deregulate(), and
            \* hts as it was before the call
    bt,     \* the Battle object with its Enemies, earth health and score
    ev,     \* what the last Battle.run call did: the path taken, the
            \* branch of _process_key and what Enemy.process_key returned,
            \* Enemies as it was when Battle._update was called and the
            \* enemy under the key in _first_keys_dic then, the point and
            \* the damage returned by Enemies.update, the sounds played,
            \* the enemy spawned and the result built
    acc,    \* the two key counts of an Enemies object and what
            \* calc_accuracy returned for them, NotCalled before the call
    inp     \* the key-down events of the frames so far against the keys
            \* Battle._update was called with: pending holds, in arrival
            \* order, the events a first-in-first-out buffer would still
            \* hold; fifo tells whether every frame so far processed the key
            \* at the head of that buffer, latest whether every frame so far
            \* processed the last event of the frame

kpvars == <<proc, fed, res, prev>>
htsvars == <<hts, held, htsEv>>
btvars == <<bt, ev>>
vars == <<proc, fed, res, prev, hts, held, htsEv, bt, ev, acc, inp>>

\* the full spellings of a word from node n on: one romaji per node of a
\* path from n to the end node
RECURSIVE SpellingsFrom(_, _)
SpellingsFrom(w, n) ==
    IF n = END THEN {<<>>}
    ELSE UNION {UNION {{Romajis(w, n)[j] \o rest :
                            rest \in SpellingsFrom(w, Successors(w, n)[i])} :
                        j \in 1..Len(Romajis(w, n))} :
                i \in 1..Len(Successors(w, n))}

Spellings(w) ==
    UNION {SpellingsFrom(w, Successors(w, START)[i]) :
             i \in 1..Len(Successors(w, START))}

OffPath == <<"*">>

IsSpellingPrefix(w, ks) == \E s \in Spellings(w) : StartsWith(s, ks)

\* ev before the first Battle.run call
NoEvent == [path |-> "new", branch |-> "no_key", kind |-> "False",
            mid |-> NewEnemies, target |-> None, point |-> 0,
            sounds |-> <<>>,
            earth_damage |-> 0, spawned |-> None, result |-> NoBuiltResult]

\* acc.accuracy before calc_accuracy is called
NotCalled == -1

\* acc where calc_accuracy is not looked at
NoCounts == [correct_count |-> 0, incorrect_count |-> 0,
             accuracy |-> NotCalled]

\* inp before the first frame
NoInput == [pending |-> <<>>, fifo |-> TRUE, latest |-> TRUE]

\* res before the first call
NoResult == [key |-> "", isNone |-> TRUE, confirmed |-> <<>>, assumed |-> <<>>,
             sound |-> "none"]

(***************************************************************************)
(* Stand-alone KeyProcessor: constructed on a vocabulary graph, then fed   *)
(* arbitrary keys                                                          *)
(***************************************************************************)
InitKP ==
    /\ proc \in {NewKeyProcessor(w) : w \in Words}
    /\ fed = <<>>
    /\ res = NoResult
    /\ prev = proc
    /\ hts = NewHiraTangoSelecter
    /\ held = [w \in Words |-> 0]
    /\ htsEv = [op |-> "new", hira |-> "", word |-> "", before |-> hts]
    /\ bt = NewBattle
    /\ ev = NoEvent
    /\ acc = NoCounts
    /\ inp = NoInput

CheckKey(key) ==
    /\ proc.err = NoErr
    /\ \E c \in {check_key(proc, key)} :
        /\ proc' = c.kp
        /\ res' = [key |-> key, isNone |-> c.ret.isNone, confirmed |-> c.ret.confirmed,
                   assumed |-> c.ret.assumed, sound |-> c.sound]
    /\ fed' = IF fed # OffPath /\ IsSpellingPrefix(proc.word, Append(fed, key))
              THEN Append(fed, key) ELSE OffPath
    /\ prev' = proc
    /\ UNCHANGED <<htsvars, btvars, acc, inp>>

NextKP == \E key \in Keys : CheckKey(key)

SpecKP == InitKP /\ [][NextKP]_vars

(***************************************************************************)
(* Stand-alone HiraTangoSelecter: select() at any time, deregulate(k) once *)
(* for every word of first kana k that select() returned, as Enemies does  *)
(* for every enemy it makes                                                *)
(***************************************************************************)
InitHTS ==
    /\ proc = NewKeyProcessor("ai")
    /\ fed = <<>>
    /\ res = NoResult
    /\ prev = proc
    /\ hts = NewHiraTangoSelecter
    /\ held = [w \in Words |-> 0]
    /\ htsEv = [op |-> "new", hira |-> "", word |-> "", before |-> hts]
    /\ bt = NewBattle
    /\ ev = NoEvent
    /\ acc = NoCounts
    /\ inp = NoInput

Select ==
    /\ hts.err = NoErr
    /\ IF Selectable(hts) = {}
       THEN /\ hts' = select_from_empty(hts)
            /\ htsEv' = [op |-> "select", hira |-> "", word |-> "",
                         before |-> hts]
            /\ UNCHANGED held
       ELSE \E first_hira \in Selectable(hts) :
              \E hira_tango \in SeqToSet(same_first_hira_tangos_dic[first_hira]) :
                /\ hts' = select(hts, first_hira, hira_tango)
                /\ held' = [held EXCEPT ![hira_tango] = @ + 1]
                /\ htsEv' = [op |-> "select", hira |-> FirstHira(hira_tango),
                             word |-> hira_tango, before |-> hts]
    /\ UNCHANGED <<kpvars, btvars, acc, inp>>

Deregulate ==
    /\ hts.err = NoErr
    /\ \E hira_tango \in Words :
        /\ held[hira_tango] > 0
        /\ hts' = deregulate(hts, FirstHira(hira_tango))
        /\ held' = [held EXCEPT ![hira_tango] = @ - 1]
        /\ htsEv' = [op |-> "deregulate", hira |-> FirstHira(hira_tango),
                     word |-> hira_tango, before |-> hts]
    /\ UNCHANGED <<kpvars, btvars, acc, inp>>

NextHTS == Select \/ Deregulate

SpecHTS == InitHTS /\ [][NextHTS]_vars

(***************************************************************************)
(* The game: Battle.run once per frame with the key-down events of the     *)
(* frame.  A raised exception ends the program.                            *)
(***************************************************************************)
Init ==
    /\ proc = NewKeyProcessor("ai")
    /\ fed = <<>>
    /\ res = NoResult
    /\ prev = proc
    /\ hts = NewHiraTangoSelecter
    /\ held = [w \in Words |-> 0]
    /\ htsEv = [op |-> "new", hira |-> "", word |-> "", before |-> hts]
    /\ bt = NewBattle
    /\ ev = NoEvent
    /\ acc = NoCounts
    /\ inp = NoInput

\* the lists of key-down unicodes a frame can bring
RECURSIVE EventLists(_)
EventLists(n) ==
    IF n = 0 THEN {<<>>}
    ELSE EventLists(n - 1)
         \cup {Append(es, k) : es \in {l \in EventLists(n - 1) : Len(l) = n - 1},
                               k \in BattleKeys}

\* the enemy object appended to _enemies by the call, None if there is none
Spawned(before, after) ==
    IF after.en.err = NoErr /\ Len(after.en.enemies) > 0
       /\ after.en.enemies[Len(after.en.enemies)].id \notin
            {before.en.enemies[i].id : i \in 1..Len(before.en.enemies)}
    THEN after.en.enemies[Len(after.en.enemies)].id ELSE None

RunBattleWith(events, first_hira, hira_tango, dist) ==
    \E r \in {battle(bt, events, first_hira, hira_tango, dist)} :
    /\ bt' = IF r.b.en.err = NoErr THEN r.b
             ELSE [bt EXCEPT !.en.err = r.b.en.err]
    /\ ev' = [path |-> r.path,
              branch |-> r.u.keyed.branch, kind |-> r.u.keyed.kind,
              mid |-> r.mid, target |-> r.target,
              point |-> r.u.point, sounds |-> r.u.keyed.sounds,
              earth_damage |-> r.u.earth_damage,
              spawned |-> Spawned(bt, r.b), result |-> r.result]

\* Battle.run during a battle with the key-down events of the frame
RunBattleOn(events) ==
    /\ ~bt.is_finish
    /\ bt.en.err = NoErr
    /\ IF ~check_finish([bt EXCEPT !.frames = @ + 1])
          /\ (bt.frames + 1) % add_frames = 0
          /\ Selectable(bt.en.hira_tango_selecter) # {}
       THEN \E first_hira \in Selectable(bt.en.hira_tango_selecter) :
              \E hira_tango \in
                  SeqToSet(same_first_hira_tangos_dic[first_hira]) :
                \E dist \in PopDists :
                  RunBattleWith(events, first_hira, hira_tango, dist)
       ELSE RunBattleWith(events, "", "", 0)

\* Battle.run during a battle
RunBattle ==
    /\ \E events \in EventLists(MaxEvents) : RunBattleOn(events)
    /\ UNCHANGED <<kpvars, htsvars, acc, inp>>

\* Battle.run after the battle has finished
RunResult ==
    /\ bt.is_finish
    /\ bt.en.err = NoErr
    /\ \E events \in EventLists(MaxEvents) :
         /\ bt' = IF result_accept_input(events) THEN battle_setup(bt) ELSE bt
         /\ ev' = [NoEvent EXCEPT !.path = IF result_accept_input(events)
                                           THEN "restart" ELSE "result"]
    /\ UNCHANGED <<kpvars, htsvars, acc, inp>>

Next == RunBattle \/ RunResult

Spec == Init /\ [][Next]_vars

(***************************************************************************)
(* The first MaxInputFrames frames of the game, each bringing up to        *)
(* MaxInputEvents key-down events, all of them keys of the word "ai"       *)
(***************************************************************************)
\* the keys of the events
InputKeys == {"a", "i"}

\* the lists of at most n key-down unicodes out of InputKeys
RECURSIVE InputEventLists(_)
InputEventLists(n) ==
    IF n = 0 THEN {<<>>}
    ELSE InputEventLists(n - 1)
         \cup {Append(es, k) :
                 es \in {l \in InputEventLists(n - 1) : Len(l) = n - 1},
                 k \in InputKeys}

\* the first and the last entry of a list of keys, "" for an empty list
FirstKey(keys) == IF keys = <<>> THEN "" ELSE keys[1]

LastKey(keys) == IF keys = <<>> THEN "" ELSE keys[Len(keys)]

\* inp after a frame of battle with the events of the frame, key being the
\* key Battle._update was called with ("" for None)
Processed(events, key) ==
    [pending |-> IF inp.fifo /\ key = FirstKey(inp.pending \o events)
                    /\ inp.pending \o events # <<>>
                 THEN Tail(inp.pending \o events) ELSE <<>>,
     fifo |-> inp.fifo /\ key = FirstKey(inp.pending \o events),
     latest |-> inp.latest /\ key = LastKey(events)]

\* Battle.run during a battle, several events in a frame
RunInput ==
    /\ bt.frames < MaxInputFrames
    /\ \E events \in InputEventLists(MaxInputEvents) :
         /\ RunBattleOn(events)
         /\ inp' = IF ev'.path = "battle" /\ bt'.en.err = NoErr
                   THEN Processed(events, accept_input(events))
                   ELSE inp
    /\ UNCHANGED <<kpvars, htsvars, acc>>

NextInput == RunInput

SpecInput == Init /\ [][NextInput]_vars

(***************************************************************************)
(* Enemies.calc_accuracy called on an Enemies object with any two counts   *)
(***************************************************************************)
InitAcc ==
    /\ proc = NewKeyProcessor("ai")
    /\ fed = <<>>
    /\ res = NoResult
    /\ prev = proc
    /\ hts = NewHiraTangoSelecter
    /\ held = [w \in Words |-> 0]
    /\ htsEv = [op |-> "new", hira |-> "", word |-> "", before |-> hts]
    /\ bt = NewBattle
    /\ ev = NoEvent
    /\ acc \in [correct_count : 0..MaxCount, incorrect_count : 0..MaxCount,
                accuracy : {NotCalled}]
    /\ inp = NoInput

CalcAccuracy ==
    /\ acc.accuracy = NotCalled
    /\ acc' = [acc EXCEPT !.accuracy = calc_accuracy(acc)]
    /\ UNCHANGED <<kpvars, htsvars, btvars, inp>>

NextAcc == CalcAccuracy

SpecAcc == InitAcc /\ [][NextAcc]_vars

(***************************************************************************)
(* Properties of the stand-alone KeyProcessor                              *)
(***************************************************************************)
\* the acceptable-key list without the 'n' appended for a set flag
NormalAcceptingKeys(p) ==
    IF p.allow_n THEN SubSeq(p.accepting_keys, 1, Len(p.accepting_keys) - 1)
    ELSE p.accepting_keys

\* the first node of the frontier of p that has the romajis "n" and "nn" and
\* is followed by a token node; 0 if there is none or a node is half typed
NNodeIndex(p) ==
    LET hits == {i \in 1..Len(p.now_nodes) :
                   /\ p.now_nodes[i] # END
                   /\ InSeq(<<"n">>, Romajis(p.word, p.now_nodes[i]))
                   /\ InSeq(<<"n", "n">>, Romajis(p.word, p.now_nodes[i]))
                   /\ Successors(p.word, p.now_nodes[i]) # <<END>>}
    IN IF p.keys_for_now_node # <<>> \/ hits = {} THEN 0
       ELSE CHOOSE i \in hits : \A j \in hits : i <= j

\* the last call typed a lone "n" on such a node
LoneNTyped == res.key = "n" /\ NNodeIndex(prev) # 0

\* C1: the keys of a full spelling of the word, fed in order to a fresh
\* KeyProcessor, are all accepted; the predicted text returned is empty on
\* the last key of the spelling and non-empty on every key before it.
C1_SpellingAccepted ==
    (fed # <<>> /\ fed # OffPath) =>
        /\ ~res.isNone
        /\ (res.assumed = <<>>) <=> (fed \in Spellings(proc.word))

\* C2: a key that is not in the acceptable keys is answered with
\* (None, None) and changes no part of the match state.
C2_RejectionChangesNothing ==
    (res.key # "" /\ ~InSeq(res.key, prev.accepting_keys)) =>
        /\ res.isNone
        /\ proc = prev

C2_Witness ==
    /\ res.key = "r"
    /\ res.isNone
    /\ prev.keys_for_now_node = <<"s", "h">>
    /\ proc.keys_for_now_node = <<"s", "h">>

\* C3: from one check_key call to the next the confirmed text never gets
\* shorter, neither the text of the completed nodes nor the text returned
\* to the caller (completed nodes plus the half-typed node).
C3_ConfirmedNeverShrinks ==
    /\ Len(proc.confirmed_nodes_keys) >= Len(prev.confirmed_nodes_keys)
    /\ Len(proc.confirmed_nodes_keys) + Len(proc.keys_for_now_node)
         >= Len(prev.confirmed_nodes_keys) + Len(prev.keys_for_now_node)

C3_Witness ==
    /\ prev.confirmed_nodes_keys = <<"k", "a">>
    /\ proc.confirmed_nodes_keys = <<"k", "a", "i">>

\* C4: a lone "n" typed on a non-final node with the romajis "n" and "nn"
\* is accepted with a non-empty predicted text and leaves 'n' in the
\* acceptable keys as an extra, last entry; a second "n" is accepted as
\* well, and then the confirmed text is the one before the first "n" plus
\* "nn", no key is half typed and the frontier is the successors of the node.
C4_TrailingNDoubled ==
    [][LoneNTyped =>
         /\ ~res.isNone
         /\ res.assumed # <<>>
         /\ proc.allow_n
         /\ proc.accepting_keys = Append(NormalAcceptingKeys(proc), "n")
         /\ (res'.key = "n" =>
               /\ ~res'.isNone
               /\ proc'.confirmed_nodes_keys
                    = prev.confirmed_nodes_keys \o <<"n", "n">>
               /\ res'.confirmed = proc'.confirmed_nodes_keys
               /\ proc'.keys_for_now_node = <<>>
               /\ proc'.now_nodes
                    = Successors(prev.word,
                                 prev.now_nodes[NNodeIndex(prev)]))]_vars

C4_Witness ==
    /\ res.key = "n"
    /\ prev.allow_n
    /\ ~proc.allow_n
    /\ proc.confirmed_nodes_keys = <<"a", "n", "n">>
    /\ proc.now_nodes = <<3>>

\* the first keys of the romajis of the nodes of the frontier of p
FrontierFirstKeys(p) ==
    UNION {{r[1] : r \in SeqToSet(Romajis(p.word, p.now_nodes[i]))} :
             i \in 1..Len(p.now_nodes)}

\* p as it would be had the lone "n" not set the flag
WithoutFlag(p) ==
    [p EXCEPT !.allow_n = FALSE, !.accepting_keys = NormalAcceptingKeys(p)]

\* C5: after a lone "n" on a node with the romajis "n" and "nn", a key
\* other than 'n' that starts a romaji of a successor node is accepted, the
\* confirmed text holds one "n" for the node, the flag is cleared, the extra
\* 'n' is gone from the acceptable keys, and the match state is the one the
\* same key gives when the flag was never set.
C5_TrailingNSingle ==
    [][(LoneNTyped /\ res'.key # "n"
          /\ res'.key \in FrontierFirstKeys(proc)) =>
         /\ ~res'.isNone
         /\ res'.confirmed
              = prev.confirmed_nodes_keys \o <<"n">> \o <<res'.key>>
         /\ ~proc'.allow_n
         /\ ~InSeq("n", proc'.accepting_keys)
         /\ proc' = check_key(WithoutFlag(proc), res'.key).kp]_vars

C5_Witness ==
    /\ res.key = "k"
    /\ prev.allow_n
    /\ ~proc.allow_n
    /\ proc.confirmed_nodes_keys = <<"a", "n">>
    /\ proc.keys_for_now_node = <<"k">>
    /\ proc.accepting_keys = <<"o">>

(***************************************************************************)
(* Properties of the stand-alone HiraTangoSelecter                         *)
(***************************************************************************)
\* the exclusion count of a kana
ExclusionCount(s, hira) ==
    IF hira \in DOMAIN s.unselectable_first_hiras_dic
    THEN s.unselectable_first_hiras_dic[hira] ELSE 0

\* the ambiguity partners of a kana: the kanas of the vocabulary that the
\* incompatibility table lists for it
Partners(hira) ==
    IF hira \in DOMAIN incompatible_hira_dic
    THEN SeqToSet(InVocabulary(incompatible_hira_dic[hira])) ELSE {}

\* the first kanas of the words select() returned that no deregulate()
\* has answered yet
Outstanding == {FirstHira(w) : w \in {v \in Words : held[v] > 0}}

\* C6: a select() call returns a word whose first kana has exclusion count
\* zero, and never a word whose first kana is the first kana of a word still
\* outstanding or an ambiguity partner of one; while a word is outstanding
\* its first kana and the partners of it are not in the selectable pool.
C6_SelectionExclusion ==
    [][/\ (htsEv'.op = "select" /\ htsEv'.word # "") =>
            /\ ExclusionCount(hts, htsEv'.hira) = 0
            /\ \A k \in Outstanding :
                 htsEv'.hira # k /\ htsEv'.hira \notin Partners(k)
       /\ \A k \in Outstanding' :
            Selectable(hts') \cap ({k} \cup Partners(k)) = {}]_vars

C6_Witness ==
    /\ htsEv.op = "select"
    /\ htsEv.word = "kai"
    /\ held["ai"] = 1
    /\ htsEv.before.fresh = {"si", "se"}
    /\ ExclusionCount(htsEv.before, "ka") = 0
    /\ ExclusionCount(hts, "si") = 1
    /\ Selectable(hts) = {"se"}

\* the restrictions that cover a kana: the first kanas of the outstanding
\* words that are the kana or have it as a partner
Covering(hira) == {k \in Outstanding : hira = k \/ hira \in Partners(k)}

\* C23: the exclusion count of a kana is at least the number of
\* restrictions that cover it at the time; a deregulate() that releases one
\* of two or more restrictions covering a kana leaves the kana out of the
\* selectable pool; and a kana comes back into the pool only by a
\* deregulate() after which no restriction covers it and its count is zero.
C23_CountsAdditive ==
    [][\A c \in SeqToSet(FirstHiras) :
         /\ hts'.err = NoErr =>
              ExclusionCount(hts', c) >= Cardinality(Covering(c)')
         /\ (htsEv'.op = "deregulate" /\ Cardinality(Covering(c)) >= 2) =>
              /\ c \notin Selectable(hts')
              /\ ExclusionCount(hts', c) >= 1
         /\ (c \notin Selectable(hts) /\ c \in Selectable(hts')) =>
              /\ htsEv'.op = "deregulate"
              /\ Covering(c)' = {}
              /\ ExclusionCount(hts', c) = 0]_vars

C23_Witness ==
    /\ htsEv.op = "deregulate"
    /\ htsEv.hira = "ka"
    /\ ExclusionCount(htsEv.before, "si") = 2
    /\ Covering("si") = {"se"}
    /\ ExclusionCount(hts, "si") >= 1
    /\ "si" \notin Selectable(hts)
    /\ "ka" \in Selectable(hts)

\* C7: deregulate(k) lowers the exclusion count of k and of every partner
\* of k by one and puts back into the selectable pool exactly the kanas
\* whose count has reached zero; a select() answered at once by the
\* deregulate() of the first kana of the word it returned leaves the pool
\* and the counts as they were before the select().
C7_DeregulateRestores ==
    [][htsEv'.op = "deregulate" =>
         /\ \A h \in {htsEv'.hira} \cup Partners(htsEv'.hira) :
              /\ ExclusionCount(hts', h) = ExclusionCount(hts, h) - 1
              /\ h \in Selectable(hts') <=> ExclusionCount(hts', h) = 0
         /\ (htsEv.op = "select" /\ htsEv.word = htsEv'.word) =>
              /\ hts'.selectable_first_hiras
                   = htsEv.before.selectable_first_hiras
              /\ \A h \in SeqToSet(FirstHiras) :
                   ExclusionCount(hts', h) = ExclusionCount(htsEv.before, h)]_vars

(***************************************************************************)
(* Properties of the game                                                  *)
(***************************************************************************)
\* C8: a Battle.run call on a spawn frame with an empty selectable pool
\* raises no error and spawns no enemy.
C8_EmptyPoolSkipsSpawn ==
    [][(/\ ~bt.is_finish
        /\ ~check_finish([bt EXCEPT !.frames = @ + 1])
        /\ (bt.frames + 1) % add_frames = 0
        /\ Selectable(bt.en.hira_tango_selecter) = {}) =>
         /\ bt'.en.err = NoErr
         /\ ev'.spawned = None
         /\ bt'.frames = bt.frames + 1]_vars

\* the keys of _first_keys_dic whose value is the enemy object id
KeysOf(en, id) == {k \in DOMAIN en.first_keys_dic : en.first_keys_dic[k] = id}

\* the enemy object id is in _enemies, is not _inputting_enemy and is the
\* value of _first_keys_dic under its first keys and under no other key
IsUnlocked(en, id) ==
    /\ IndexOf(en, id) # 0
    /\ en.inputting_enemy # id
    /\ KeysOf(en, id) # {}
    /\ KeysOf(en, id)
         = SeqToSet(NewKeyProcessor(en.enemies[IndexOf(en, id)].word)
                        .accepting_keys)

\* the enemy object id is in _enemies, is _inputting_enemy and is under no
\* key of _first_keys_dic
IsLocked(en, id) ==
    /\ IndexOf(en, id) # 0
    /\ en.inputting_enemy = id
    /\ KeysOf(en, id) = {}

\* the enemy object id is not in _enemies, is not _inputting_enemy and is
\* under no key of _first_keys_dic
IsDestroyed(en, id) ==
    /\ IndexOf(en, id) = 0
    /\ en.inputting_enemy # id
    /\ KeysOf(en, id) = {}

\* the enemy objects a battle can hold references to
EnemyIds == 1..(Len(FirstHiras) + 2)

\* C9: every enemy object is unlocked, locked or destroyed, and no object is
\* in _enemies twice.
C9_EnemyConditions ==
    /\ LiveIds(bt.en) \subseteq EnemyIds
    /\ \A id \in EnemyIds :
         \/ IsUnlocked(bt.en, id)
         \/ IsLocked(bt.en, id)
         \/ IsDestroyed(bt.en, id)
    /\ \A i, j \in 1..Len(bt.en.enemies) :
         bt.en.enemies[i].id = bt.en.enemies[j].id => i = j

C9_Witness ==
    /\ bt.score = point
    /\ Len(bt.en.enemies) = 2
    /\ IsLocked(bt.en, bt.en.enemies[1].id)
    /\ bt.en.enemies[1].kp.keys_for_now_node # <<>>
    /\ IsUnlocked(bt.en, bt.en.enemies[2].id)
    /\ \E id \in EnemyIds : IsDestroyed(bt.en, id)

\* C10: the Battle.run call whose key completes the word of the locked
\* enemy raises the correct count by one, returns the enemy's point, which
\* is added to the score, takes the enemy out of _enemies and clears
\* _inputting_enemy; the key of the next call is looked up in
\* _first_keys_dic.
C10_LockedCompletion ==
    [][/\ (ev'.branch = "inputting" /\ ev'.kind = "point") =>
            /\ bt'.en.err = NoErr
            /\ bt'.en.correct_count = bt.en.correct_count + 1
            /\ bt'.en.incorrect_count = bt.en.incorrect_count
            /\ ev'.point = point
            /\ bt'.score = bt.score + point
            /\ bt.en.inputting_enemy # None
            /\ IndexOf(bt.en, bt.en.inputting_enemy) # 0
            /\ IndexOf(bt'.en, bt.en.inputting_enemy) = 0
            /\ bt'.en.inputting_enemy = None
       /\ (ev.branch = "inputting" /\ ev.kind = "point") =>
            ev'.branch \in {"no_key", "first_key", "no_enemy"}]_vars

C10_Witness ==
    /\ ev.branch = "inputting"
    /\ ev.kind = "point"
    /\ ev.point = point
    /\ bt.score = point
    /\ bt.en.correct_count = 3
    /\ bt.en.inputting_enemy = None
    /\ Len(bt.en.enemies) = 1

(***************************************************************************)
(* Properties of Enemies.calc_accuracy                                     *)
(***************************************************************************)
\* C12: for counts that are not both zero calc_accuracy returns the
\* hundredth nearest to correct / (correct + incorrect) * 100, which is 70.00
\* for 7 correct and 3 incorrect keys; for two zero counts it returns 0.
C12_AccuracyRounded ==
    acc.accuracy # NotCalled =>
        /\ (acc.correct_count + acc.incorrect_count = 0) => acc.accuracy = 0
        /\ (acc.correct_count + acc.incorrect_count > 0) =>
             /\ 2 * (acc.accuracy * (acc.correct_count + acc.incorrect_count)
                       - 10000 * acc.correct_count)
                  <= acc.correct_count + acc.incorrect_count
             /\ 2 * (10000 * acc.correct_count
                       - acc.accuracy
                           * (acc.correct_count + acc.incorrect_count))
                  <= acc.correct_count + acc.incorrect_count
        /\ (acc.correct_count = 7 /\ acc.incorrect_count = 3) =>
             acc.accuracy = 7000

C12_Witness ==
    /\ acc.correct_count = 2
    /\ acc.incorrect_count = 1
    /\ acc.accuracy = 6667

\* the only enemy of the battle is an enemy of the word w
OnlyEnemy(w) ==
    /\ ~bt.is_finish
    /\ bt.en.err = NoErr
    /\ ~check_finish([bt EXCEPT !.frames = @ + 1])
    /\ Len(bt.en.enemies) = 1
    /\ bt.en.enemies[1].word = w

\* C11: with the word "ai" as the only enemy, not yet locked and not about
\* to reach the earth, the frame with the key 'a' locks the enemy, whose
\* confirmed text is then "a" and whose predicted text is "i"; with that
\* enemy locked, the frame with the key 'i' completes the word: the enemy is
\* taken out of the battle, its point is returned and added to the score,
\* and calc_accuracy() is 100.00 when no key was counted as incorrect.
C11_TypeAi ==
    [][/\ (/\ OnlyEnemy("ai")
           /\ bt.en.inputting_enemy = None
           /\ bt.en.enemies[1].kp = NewKeyProcessor("ai")
           /\ bt.en.enemies[1].dist > 1
           /\ (bt.frames + 1) % add_frames # 0
           /\ RunBattleOn(<<"a">>)) =>
            /\ ev'.branch = "first_key"
            /\ ev'.kind = "True"
            /\ bt'.en.inputting_enemy = bt.en.enemies[1].id
            /\ Len(bt'.en.enemies) = 1
            /\ bt'.en.enemies[1].kp.confirmed_nodes_keys
                 \o bt'.en.enemies[1].kp.keys_for_now_node = <<"a">>
            /\ bt'.en.enemies[1].kp.assumed_keys = <<"i">>
            /\ bt'.en.correct_count = bt.en.correct_count + 1
       /\ (/\ OnlyEnemy("ai")
           /\ bt.en.inputting_enemy = bt.en.enemies[1].id
           /\ bt.en.enemies[1].kp.confirmed_nodes_keys = <<"a">>
           /\ bt.en.enemies[1].kp.keys_for_now_node = <<>>
           /\ RunBattleOn(<<"i">>)) =>
            /\ ev'.branch = "inputting"
            /\ ev'.kind = "point"
            /\ ev'.point = point
            /\ bt'.score = bt.score + point
            /\ IndexOf(bt'.en, bt.en.enemies[1].id) = 0
            /\ bt'.en.inputting_enemy = None
            /\ bt'.en.correct_count = bt.en.correct_count + 1
            /\ bt.en.incorrect_count = 0 => calc_accuracy(bt'.en) = 10000]_vars

C11_Witness ==
    /\ ev.branch = "inputting"
    /\ ev.kind = "point"
    /\ bt.score = point
    /\ bt.en.correct_count = 2
    /\ bt.en.incorrect_count = 0
    /\ calc_accuracy(bt.en) = 10000
    /\ bt.en.inputting_enemy = None
    /\ bt.en.enemies = <<>>

(***************************************************************************)
(* Properties of the input of a frame                                      *)
(***************************************************************************)
\* C13: a frame counts at most one key, and the frames so far either all
\* processed the oldest key-down event not yet processed, those of earlier
\* frames included (first in, first out), or all processed the last
\* key-down event of the frame.
C13_OneKeyPerTick ==
    [][/\ bt'.en.correct_count + bt'.en.incorrect_count
            <= bt.en.correct_count + bt.en.incorrect_count + 1
       /\ inp'.fifo \/ inp'.latest]_vars

\* C14: while the battle is not finished every Battle.run call that raises
\* nothing counts one frame, and it finishes the battle exactly when the new
\* frame count exceeds _end_frames or the earth's health is at or below zero
\* when the call begins, so that the frame count never passes
\* _end_frames + 1; the finishing call spawns nothing and processes no key.
\* Once the battle is finished a call changes nothing, unless it restarts
\* the battle.
C14_BattleEnds ==
    [][/\ (~bt.is_finish /\ bt'.en.err = NoErr) =>
            /\ bt'.frames = bt.frames + 1
            /\ bt'.is_finish
                 <=> (bt.frames + 1 > end_frames \/ bt.health <= 0)
            /\ bt'.is_finish =>
                 /\ ev'.path = "finish"
                 /\ ev'.spawned = None
                 /\ ev'.branch = "no_key"
                 /\ bt'.en.correct_count = bt.en.correct_count
                 /\ bt'.en.incorrect_count = bt.en.incorrect_count
       /\ bt.is_finish =>
            \/ ev'.path = "result" /\ bt' = bt
            \/ ev'.path = "restart" /\ bt' = battle_setup(bt)
       /\ bt'.frames <= end_frames + 1]_vars

C14_Witness ==
    /\ bt.is_finish
    /\ ev.path = "finish"
    /\ bt.health <= 0
    /\ bt.frames <= end_frames

\* the enemies of en that are no longer in _enemies of after
Gone(en, after) ==
    {en.enemies[i] : i \in {j \in 1..Len(en.enemies) :
                              IndexOf(after, en.enemies[j].id) = 0}}

\* C15: in a frame of battle without a key, the enemies that Enemies.update
\* takes out of _enemies are enemies that have reached the earth, none that
\* has reached it stays, and one
\* unit of damage is returned and taken from the earth's health for each of
\* them.  If the locked enemy is among them _inputting_enemy is cleared,
\* otherwise it is unchanged; the keys that leave _first_keys_dic are
\* exactly the first keys of the unlocked ones, and the selecter is changed
\* by nothing but deregulate() of the first kana of each unlocked one, which
\* lowers the exclusion count of that kana by one.
C15_Collision ==
    [][(ev'.path = "battle" /\ ev'.branch = "no_key"
          /\ bt'.en.err = NoErr) =>
         /\ \A e \in Gone(ev'.mid, bt'.en) : e.dist <= 1
         /\ \A i \in 1..Len(bt'.en.enemies) : bt'.en.enemies[i].dist >= 1
         /\ ev'.earth_damage = Cardinality(Gone(ev'.mid, bt'.en))
         /\ bt'.health = bt.health - Cardinality(Gone(ev'.mid, bt'.en))
         /\ bt'.en.inputting_enemy
              = IF \E e \in Gone(ev'.mid, bt'.en) :
                     e.id = ev'.mid.inputting_enemy
                THEN None ELSE ev'.mid.inputting_enemy
         /\ DOMAIN bt'.en.first_keys_dic
              = {k \in DOMAIN ev'.mid.first_keys_dic :
                   \A e \in Gone(ev'.mid, bt'.en) :
                      ev'.mid.first_keys_dic[k] # e.id}
         /\ \A k \in DOMAIN bt'.en.first_keys_dic :
              bt'.en.first_keys_dic[k] = ev'.mid.first_keys_dic[k]
         /\ \A e \in Gone(ev'.mid, bt'.en) :
              e.id # ev'.mid.inputting_enemy =>
                /\ KeysOf(ev'.mid, e.id) = SeqToSet(e.kp.accepting_keys)
                /\ KeysOf(ev'.mid, e.id) # {}
                /\ KeysOf(bt'.en, e.id) = {}
                /\ ExclusionCount(bt'.en.hira_tango_selecter, e.first_hira)
                     = ExclusionCount(ev'.mid.hira_tango_selecter,
                                      e.first_hira) - 1
         /\ (\A e \in Gone(ev'.mid, bt'.en) :
               e.id = ev'.mid.inputting_enemy) =>
              bt'.en.hira_tango_selecter = ev'.mid.hira_tango_selecter
         /\ \A e \in Gone(ev'.mid, bt'.en) :
              Gone(ev'.mid, bt'.en) = {e} /\ e.id # ev'.mid.inputting_enemy =>
                bt'.en.hira_tango_selecter
                  = deregulate(ev'.mid.hira_tango_selecter, e.first_hira)]_vars

C15_Witness ==
    /\ ev.path = "battle"
    /\ ev.branch = "no_key"
    /\ ev.earth_damage = 1
    /\ ev.mid.inputting_enemy # None
    /\ IndexOf(ev.mid, ev.mid.inputting_enemy) # 0
    /\ IndexOf(bt.en, ev.mid.inputting_enemy) = 0
    /\ bt.en.inputting_enemy = None
    /\ bt.en.first_keys_dic = ev.mid.first_keys_dic


\* the enemy object id of en
EnemyOf(en, id) == en.enemies[IndexOf(en, id)]

\* C16: in a frame of battle in which no enemy is locked when the key is
\* processed and the key is a key of _first_keys_dic, the key is accepted by
\* the automaton of the enemy registered under it (True or the point is
\* returned, one key longer is confirmed or pending), the correct count
\* rises by one and the incorrect count stays, none of the enemy's first
\* keys stays in _first_keys_dic while every other entry does unless its
\* enemy reaches the earth in the frame, the exclusion count of its first
\* kana falls by one, deregulate() of that kana being all that happens to
\* the selecter when no enemy reaches the earth in the frame, and the enemy
\* is the locked one after the frame unless it reaches the earth in it.
C16_FirstKeyLocks ==
    [][(/\ ev'.path = "battle" /\ bt'.en.err = NoErr
        /\ ev'.mid.inputting_enemy = None /\ ev'.target # None) =>
         /\ ev'.branch = "first_key"
         /\ ev'.kind \in {"True", "point"}
         /\ ev'.sounds = <<"correct">>
         /\ IndexOf(ev'.mid, ev'.target) # 0
         /\ bt'.en.correct_count = ev'.mid.correct_count + 1
         /\ bt'.en.incorrect_count = ev'.mid.incorrect_count
         /\ KeysOf(ev'.mid, ev'.target)
              = SeqToSet(EnemyOf(ev'.mid, ev'.target).kp.accepting_keys)
         /\ KeysOf(ev'.mid, ev'.target) # {}
         /\ KeysOf(bt'.en, ev'.target) = {}
         /\ \A k \in DOMAIN ev'.mid.first_keys_dic :
              (/\ ev'.mid.first_keys_dic[k] # ev'.target
               /\ IndexOf(bt'.en, ev'.mid.first_keys_dic[k]) # 0) =>
                /\ k \in DOMAIN bt'.en.first_keys_dic
                /\ bt'.en.first_keys_dic[k] = ev'.mid.first_keys_dic[k]
         /\ ExclusionCount(bt'.en.hira_tango_selecter,
                           EnemyOf(ev'.mid, ev'.target).first_hira)
              = ExclusionCount(ev'.mid.hira_tango_selecter,
                               EnemyOf(ev'.mid, ev'.target).first_hira) - 1
         /\ Gone(ev'.mid, bt'.en) = {} =>
              bt'.en.hira_tango_selecter
                = deregulate(ev'.mid.hira_tango_selecter,
                             EnemyOf(ev'.mid, ev'.target).first_hira)
         /\ bt'.en.inputting_enemy
              = IF IndexOf(bt'.en, ev'.target) = 0 THEN None ELSE ev'.target
         /\ IndexOf(bt'.en, ev'.target) # 0 =>
              Len(EnemyOf(bt'.en, ev'.target).kp.keys_for_now_node)
                + Len(EnemyOf(bt'.en, ev'.target).kp.confirmed_nodes_keys)
                = 1]_vars

C16_Witness ==
    /\ ev.path = "battle"
    /\ ev.branch = "first_key"
    /\ ev.kind = "True"
    /\ ev.mid.inputting_enemy = None
    /\ ev.target # None
    /\ bt.en.inputting_enemy = ev.target
    /\ Cardinality(KeysOf(ev.mid, ev.target)) >= 2
    /\ KeysOf(bt.en, ev.target) = {}
    /\ bt.en.correct_count = ev.mid.correct_count + 1


\* the last call typed a lone "n" with no node half typed and the flag
\* clear, and the first node of the frontier that has a romaji "n" has the
\* romaji "nn" too
LoneNMatched ==
    /\ res.key = "n"
    /\ ~res.isNone
    /\ prev.keys_for_now_node = <<>>
    /\ ~prev.allow_n
    /\ FirstExactNode(prev.word, prev.now_nodes, <<"n">>) # <<>>
    /\ InSeq(<<"n", "n">>,
             Romajis(prev.word,
                     FirstExactNode(prev.word, prev.now_nodes, <<"n">>)[1]))

\* C17: _allow_n is false in a fresh KeyProcessor, and after an accepted key
\* it is true exactly when the key was a lone "n" that matched the romaji
\* "n" of a node that has the romaji "nn" too: it is false after a node has
\* been completed with "nn", "xn" or any other romaji, after a key that half
\* types a node and after the second "n".
C17_AllowNOnlyAfterLoneN ==
    /\ res.key = "" => ~proc.allow_n
    /\ (res.key # "" /\ ~res.isNone /\ proc.err = NoErr) =>
         (proc.allow_n <=> LoneNMatched)


\* the key each romaji of a node of the frontier of p asks for next, for the
\* romajis that start with the keys typed for the current node
NextKeys(p) ==
    UNION {{r[Len(p.keys_for_now_node) + 1] :
              r \in {a \in SeqToSet(Romajis(p.word, p.now_nodes[i])) :
                       /\ Len(a) > Len(p.keys_for_now_node)
                       /\ SubSeq(a, 1, Len(p.keys_for_now_node))
                            = p.keys_for_now_node}} :
             i \in 1..Len(p.now_nodes)}

\* C18: in a fresh KeyProcessor and after every call that leaves a frontier
\* of token nodes, the set of acceptable keys is the set of the keys that
\* the romajis of the frontier's nodes starting with the half-typed text
\* have at the position after it, plus 'n' when _allow_n is set and nothing
\* else; no romaji of the frontier is used up by the half-typed text.
C18_AcceptingKeys ==
    (proc.err = NoErr /\ \A i \in 1..Len(proc.now_nodes) :
                            proc.now_nodes[i] # END) =>
        /\ SeqToSet(proc.accepting_keys)
             = NextKeys(proc) \cup (IF proc.allow_n THEN {"n"} ELSE {})
        /\ \A i \in 1..Len(proc.now_nodes) :
             \A a \in SeqToSet(Romajis(proc.word, proc.now_nodes[i])) :
               a # proc.keys_for_now_node

C18_Witness ==
    /\ proc.word = "anko"
    /\ res.key = "n"
    /\ ~res.isNone
    /\ proc.allow_n
    /\ proc.now_nodes = <<3>>
    /\ NextKeys(proc) = {"k", "c"}
    /\ SeqToSet(proc.accepting_keys) = {"k", "c", "n"}


\* dummy_keys of the last call: the half-typed text plus the key
Candidate == Append(prev.keys_for_now_node, res.key)

\* the positions in the frontier of p of the nodes that have the romaji keys
ExactPositions(p, keys) ==
    {i \in 1..Len(p.now_nodes) :
       keys \in SeqToSet(Romajis(p.word, p.now_nodes[i]))}

\* the last call was an accepted key
KeyAccepted == res.key # "" /\ ~res.isNone

\* C19: after an accepted key, if a node of the previous frontier has a
\* romaji equal to the half-typed text plus the key, then the text of the
\* completed nodes has grown by exactly that text, no node is half typed and
\* the frontier is the successor list of the first such node in frontier
\* order, whatever other nodes of the frontier have a romaji that only
\* starts with that text.
C19_ExactMatchAdvances ==
    (KeyAccepted /\ ExactPositions(prev, Candidate) # {}) =>
        /\ proc.confirmed_nodes_keys = prev.confirmed_nodes_keys \o Candidate
        /\ res.confirmed = proc.confirmed_nodes_keys
        /\ proc.keys_for_now_node = <<>>
        /\ \E i \in ExactPositions(prev, Candidate) :
             /\ \A j \in ExactPositions(prev, Candidate) : i <= j
             /\ proc.now_nodes = Successors(prev.word, prev.now_nodes[i])

C19_Witness ==
    /\ KeyAccepted
    /\ prev.word = "sya"
    /\ prev.now_nodes = <<1, 2>>
    /\ Candidate = <<"s", "i">>
    /\ ExactPositions(prev, Candidate) = {1}
    /\ proc.now_nodes = <<3>>
    /\ proc.confirmed_nodes_keys = <<"s", "i">>
    /\ proc.keys_for_now_node = <<>>


\* the nodes of the frontier of p that have a romaji starting with keys, in
\* frontier order
StillTyping(p, keys) ==
    LET HasPrefix(n) == \E a \in SeqToSet(Romajis(p.word, n)) :
                           StartsWith(a, keys)
    IN SelectSeq(p.now_nodes, HasPrefix)

\* the half-typed text is the candidate, the text of the completed nodes is
\* the one before the call and the frontier is the nodes of the previous
\* frontier that have a romaji starting with the candidate, of which there
\* are some
CandidateHalfTyped ==
    /\ proc.keys_for_now_node = Candidate
    /\ proc.confirmed_nodes_keys = prev.confirmed_nodes_keys
    /\ proc.now_nodes = StillTyping(prev, Candidate)
    /\ proc.now_nodes # <<>>

\* the last call took check_key's early return for the 'n' of a set flag
SecondNTaken == prev.allow_n /\ Candidate = <<"n">>

\* C20, as stated: after every accepted key for which no node of the
\* previous frontier has a romaji equal to the half-typed text plus the key,
\* that text is the half-typed text, the text of the completed nodes is
\* unchanged and the frontier is the non-empty list of the nodes of the
\* previous frontier that have a romaji starting with it, in the same order.
C20_PrefixMatchContinues ==
    (KeyAccepted /\ ExactPositions(prev, Candidate) = {}) =>
        CandidateHalfTyped

\* C20, amended: the same for every accepted key other than the 'n' that
\* check_key accepts on account of a set _allow_n and appends to the text of
\* the completed nodes.
C20_PrefixMatchContinuesButSecondN ==
    (KeyAccepted /\ ExactPositions(prev, Candidate) = {} /\ ~SecondNTaken) =>
        CandidateHalfTyped

C20_Witness ==
    /\ KeyAccepted
    /\ prev.word = "sya"
    /\ prev.now_nodes = <<1, 2>>
    /\ prev.keys_for_now_node = <<"s">>
    /\ Candidate = <<"s", "y">>
    /\ ExactPositions(prev, Candidate) = {}
    /\ proc.now_nodes = <<2>>
    /\ proc.keys_for_now_node = <<"s", "y">>
    /\ proc.confirmed_nodes_keys = <<>>


\* the paths of the graph of w from node n to the end node, as node lists
\* without the end node
RECURSIVE PathsFrom(_, _)
PathsFrom(w, n) ==
    IF n = END THEN {<<>>}
    ELSE {<<n>> \o t :
            t \in UNION {PathsFrom(w, Successors(w, n)[i]) :
                           i \in 1..Len(Successors(w, n))}}

\* the paths from the nodes of the frontier of p that no other such path
\* has fewer nodes than
ShortestPaths(p) ==
    LET all == UNION {PathsFrom(p.word, p.now_nodes[i]) :
                        i \in 1..Len(p.now_nodes)}
    IN {t \in all : \A u \in all : Len(t) <= Len(u)}

\* the romajis of node n of w that no romaji of n is shorter than
MinRomajis(w, n) ==
    {a \in SeqToSet(Romajis(w, n)) :
       \A b \in SeqToSet(Romajis(w, n)) : Len(a) <= Len(b)}

\* the texts that take a romaji of minimum length for every node of a list
RECURSIVE MinTexts(_, _)
MinTexts(w, ns) ==
    IF ns = <<>> THEN {<<>>}
    ELSE {a \o t : a \in MinRomajis(w, Head(ns)), t \in MinTexts(w, Tail(ns))}

\* the texts of C21 for the match state p: what is left to type of a romaji
\* of the first node of a shortest path that starts with the half-typed
\* text, then a romaji of minimum length for every later node of that path
PredictableTexts(p) ==
    UNION {{SubSeq(a, Len(p.keys_for_now_node) + 1, Len(a)) \o t :
              a \in {b \in SeqToSet(Romajis(p.word, path[1])) :
                       StartsWith(b, p.keys_for_now_node)},
              t \in MinTexts(p.word, Tail(path))} :
             path \in ShortestPaths(p)}

\* the last call was __init__ or an accepted key that did not complete the
\* word
Continuing ==
    /\ proc.err = NoErr
    /\ res.key = "" \/ (~res.isNone /\ res.assumed # <<>>)
    /\ \A i \in 1..Len(proc.now_nodes) : proc.now_nodes[i] # END

RECURSIVE Completes(_, _)
Completes(p, keys) ==
    /\ keys # <<>>
    /\ ~check_key(p, Head(keys)).ret.isNone
    /\ IF Len(keys) = 1
       THEN check_key(p, Head(keys)).ret.assumed = <<>>
       ELSE /\ check_key(p, Head(keys)).ret.assumed # <<>>
            /\ Completes(check_key(p, Head(keys)).kp, Tail(keys))

\* some list of at most n keys completes the word from the match state p on
RECURSIVE CompletableWithin(_, _)
CompletableWithin(p, n) ==
    /\ n >= 1
    /\ \E key \in Keys :
         /\ ~check_key(p, key).ret.isNone
         /\ \/ check_key(p, key).ret.assumed = <<>>
            \/ CompletableWithin(check_key(p, key).kp, n - 1)

\* no list of keys shorter than the predicted text completes the word
NoShorterCompletion == ~CompletableWithin(proc, Len(proc.assumed_keys) - 1)

\* C22: in a fresh KeyProcessor and after every accepted key that does not
\* complete the word, the keys of the predicted text, typed one by one,
\* complete the word, and no list of fewer keys does.
C22_ShortestCompletion ==
    Continuing =>
        /\ Completes(proc, proc.assumed_keys)
        /\ NoShorterCompletion


\* a key was processed in the frame while an enemy was locked
KeyWhileLocked ==
    /\ ev'.path = "battle"
    /\ bt'.en.err = NoErr
    /\ ev'.branch # "no_key"
    /\ ev'.mid.inputting_enemy # None

\* C24: a key processed while an enemy is locked goes to the locked enemy
\* only.  The match state of every other enemy is the one before the key;
\* no key enters _first_keys_dic, no entry changes, and the entries of the
\* enemies still in _enemies after the frame stay; the selecter is unchanged
\* unless an unlocked enemy reaches the earth in the frame.  A key the locked
\* enemy rejects, also one that _first_keys_dic holds for an unlocked enemy,
\* plays the wrong-key sound, adds one to the incorrect count and nothing to
\* the correct count or the score, and leaves the locked enemy's match state
\* and the lock as they are (the lock goes only if the enemy reaches the
\* earth in the frame).
C24_LockedKeyRouting ==
    [][KeyWhileLocked =>
         /\ ev'.branch = "inputting"
         /\ \A i \in 1..Len(bt'.en.enemies) :
              (/\ bt'.en.enemies[i].id # ev'.mid.inputting_enemy
               /\ IndexOf(ev'.mid, bt'.en.enemies[i].id) # 0) =>
                bt'.en.enemies[i].kp
                  = EnemyOf(ev'.mid, bt'.en.enemies[i].id).kp
         /\ DOMAIN bt'.en.first_keys_dic \subseteq DOMAIN ev'.mid.first_keys_dic
         /\ \A k \in DOMAIN ev'.mid.first_keys_dic :
              /\ k \in DOMAIN bt'.en.first_keys_dic =>
                   bt'.en.first_keys_dic[k] = ev'.mid.first_keys_dic[k]
              /\ IndexOf(bt'.en, ev'.mid.first_keys_dic[k]) # 0 =>
                   k \in DOMAIN bt'.en.first_keys_dic
         /\ Gone(ev'.mid, bt'.en) \subseteq
              {e \in Gone(ev'.mid, bt'.en) : e.id = ev'.mid.inputting_enemy} =>
              bt'.en.hira_tango_selecter = ev'.mid.hira_tango_selecter
         /\ ev'.kind = "False" =>
              /\ ev'.sounds = <<"wrong">>
              /\ bt'.en.incorrect_count = ev'.mid.incorrect_count + 1
              /\ bt'.en.correct_count = ev'.mid.correct_count
              /\ bt'.score = bt.score
              /\ ev'.point = None
              /\ IF IndexOf(bt'.en, ev'.mid.inputting_enemy) # 0
                 THEN /\ bt'.en.inputting_enemy = ev'.mid.inputting_enemy
                      /\ EnemyOf(bt'.en, ev'.mid.inputting_enemy).kp
                           = EnemyOf(ev'.mid, ev'.mid.inputting_enemy).kp
                 ELSE bt'.en.inputting_enemy = None]_vars

C24_Witness ==
    /\ ev.path = "battle"
    /\ ev.branch = "inputting"
    /\ ev.kind = "False"
    /\ ev.mid.inputting_enemy # None
    /\ ev.target # None
    /\ ev.target # ev.mid.inputting_enemy
    /\ bt.en.inputting_enemy = ev.mid.inputting_enemy
    /\ IsUnlocked(bt.en, ev.target)
    /\ EnemyOf(bt.en, ev.target).kp = EnemyOf(ev.mid, ev.target).kp
    /\ bt.en.incorrect_count = ev.mid.incorrect_count + 1


\* the enemies of _enemies other than the locked one
UnlockedEnemies(en) ==
    {en.enemies[i] : i \in {j \in 1..Len(en.enemies) :
                              en.enemies[j].id # en.inputting_enemy}}

\* the acceptable keys of the KeyProcessor of an enemy when it is made
InitialKeys(enemy) == SeqToSet(NewKeyProcessor(enemy.word).accepting_keys)

\* C25: with the incompatibility table listing for every first kana the
\* first kanas that share a first key with it, in every state of a battle
\* no two unlocked enemies have a first key in common, the keys of
\* _first_keys_dic are the first keys of the unlocked enemies and every key
\* maps to the enemy whose first key it is; a spawn registers the new enemy
\* under keys that were not in _first_keys_dic.
C25_FirstKeysDisjoint ==
    [][/\ \A e1, e2 \in UnlockedEnemies(bt'.en) :
            e1.id # e2.id => InitialKeys(e1) \cap InitialKeys(e2) = {}
       /\ DOMAIN bt'.en.first_keys_dic
            = UNION {InitialKeys(e) : e \in UnlockedEnemies(bt'.en)}
       /\ \A e \in UnlockedEnemies(bt'.en) :
            \A k \in InitialKeys(e) : bt'.en.first_keys_dic[k] = e.id
       /\ \A i \in 1..Len(ev'.mid.enemies) :
            IndexOf(bt.en, ev'.mid.enemies[i].id) = 0 =>
              InitialKeys(ev'.mid.enemies[i]) \cap DOMAIN bt.en.first_keys_dic
                = {}]_vars

C25_Witness ==
    /\ Cardinality(UnlockedEnemies(bt.en)) = 2
    /\ bt.en.inputting_enemy = None
    /\ DOMAIN bt.en.first_keys_dic = {"k", "c", "s"}
    /\ \E e \in UnlockedEnemies(bt.en) :
         e.first_hira = "ka" /\ KeysOf(bt.en, e.id) = {"k", "c"}


\* the enemies of the frame's spawn: in _enemies when the key is processed
\* and not before the frame
NewlySpawned ==
    {ev'.mid.enemies[i] : i \in {j \in 1..Len(ev'.mid.enemies) :
                                   IndexOf(bt.en, ev'.mid.enemies[j].id) = 0}}

\* C26, as stated: no two enemies of _enemies, locked or unlocked, have the
\* same first kana, and no enemy is spawned with the first kana of an enemy
\* that is in _enemies.
C26_OnePerFirstKana ==
    [][/\ \A i, j \in 1..Len(bt'.en.enemies) :
            bt'.en.enemies[i].first_hira = bt'.en.enemies[j].first_hira
              => i = j
       /\ \A e \in NewlySpawned :
            \A i \in 1..Len(bt.en.enemies) :
              bt.en.enemies[i].first_hira # e.first_hira]_vars

\* C26, amended: no two unlocked enemies of _enemies have the same first
\* kana, so that a first kana has at most two enemies in _enemies, one of
\* them locked; and no enemy is spawned with the first kana of an unlocked
\* enemy that is in _enemies.
C26_OneUnlockedPerFirstKana ==
    [][/\ \A e1, e2 \in UnlockedEnemies(bt'.en) :
            e1.first_hira = e2.first_hira => e1 = e2
       /\ \A i, j \in 1..Len(bt'.en.enemies) :
            (/\ bt'.en.enemies[i].first_hira = bt'.en.enemies[j].first_hira
             /\ i # j) =>
               bt'.en.inputting_enemy
                 \in {bt'.en.enemies[i].id, bt'.en.enemies[j].id}
       /\ \A e \in NewlySpawned :
            \A u \in UnlockedEnemies(bt.en) :
              u.first_hira # e.first_hira]_vars

C26_Witness ==
    /\ Len(bt.en.enemies) = 2
    /\ bt.en.enemies[1].first_hira = "a"
    /\ bt.en.enemies[2].first_hira = "a"
    /\ bt.en.inputting_enemy = bt.en.enemies[1].id
    /\ IsUnlocked(bt.en, bt.en.enemies[2].id)
    /\ ev.spawned = bt.en.enemies[2].id


\* C27: the key of a frame of battle plays at most one sound: the correct-key
\* sound or none when it is accepted, and the wrong-key sound, once and
\* alone, when it is rejected, be it by the automaton of the locked enemy or
\* because no enemy is locked and _first_keys_dic does not hold the key; a
\* frame without a key plays none.
C27_OneSoundPerKey ==
    [][(ev'.path = "battle" /\ bt'.en.err = NoErr) =>
         /\ Len(ev'.sounds) <= 1
         /\ ev'.branch = "no_key" => ev'.sounds = <<>>
         /\ (ev'.branch # "no_key" /\ ev'.kind = "False") =>
              /\ ev'.sounds = <<"wrong">>
              /\ ev'.branch \in {"inputting", "no_enemy"}
              /\ bt'.en.incorrect_count = ev'.mid.incorrect_count + 1
         /\ (ev'.branch # "no_key" /\ ev'.kind # "False") =>
              /\ ev'.sounds \in {<<>>, <<"correct">>}
              /\ bt'.en.correct_count = ev'.mid.correct_count + 1
         /\ ev'.branch = "no_enemy" =>
              /\ ev'.kind = "False"
              /\ ev'.mid.inputting_enemy = None
              /\ ev'.target = None]_vars

C27_Witness ==
    /\ ev.path = "battle"
    /\ ev.branch = "no_enemy"
    /\ ev.kind = "False"
    /\ ev.sounds = <<"wrong">>
    /\ Len(ev.mid.enemies) = 2
    /\ ev.mid.inputting_enemy = None
    /\ bt.en.incorrect_count = 2


\* the enemy that the key of the frame destroyed before the loop of
\* Enemies.update ran: the locked enemy whose word the key completed
KilledByKey(e) ==
    /\ e.branch = "inputting"
    /\ e.kind = "point"

\* C28: in a frame of battle every enemy that is in _enemies after the key
\* of the frame is processed gets its update in the loop of Enemies.update:
\* one that has reached the earth is taken out of _enemies in the frame and
\* every other one is one step closer after it, also when another enemy
\* reaches the earth in the same frame.
C28_EveryEnemyUpdated ==
    [][(ev'.path = "battle" /\ bt'.en.err = NoErr) =>
         \A i \in 1..Len(ev'.mid.enemies) :
            (~(KilledByKey(ev')
                 /\ ev'.mid.enemies[i].id = ev'.mid.inputting_enemy)) =>
              IF ev'.mid.enemies[i].dist <= 1
              THEN IndexOf(bt'.en, ev'.mid.enemies[i].id) = 0
              ELSE /\ IndexOf(bt'.en, ev'.mid.enemies[i].id) # 0
                   /\ EnemyOf(bt'.en, ev'.mid.enemies[i].id).dist
                        = ev'.mid.enemies[i].dist - 1]_vars


\* C29: in a frame of battle with a key, whatever was spawned, has reached
\* the earth or was typed before, Enemies._process_key returns without
\* raising, and a key that is not accepted is counted as a miss and as
\* nothing else.
C29_NoKeyRaises ==
    [][(ev'.path = "battle" /\ ev'.mid.err = NoErr
          /\ ev'.branch # "no_key") =>
         /\ ev'.kind # "raised"
         /\ (ev'.kind = "False" /\ bt'.en.err = NoErr) =>
              /\ bt'.en.incorrect_count = ev'.mid.incorrect_count + 1
              /\ bt'.en.correct_count = ev'.mid.correct_count
              /\ ev'.point = 0]_vars


\* the last call was an accepted key that completed the word
Completing ==
    /\ proc.err = NoErr
    /\ res.key # "" /\ ~res.isNone /\ res.assumed = <<>>

\* C30: in a fresh KeyProcessor and after every accepted key that does not
\* complete the word, the confirmed text, the half-typed text and the
\* predicted text make up, in this order, a spelling of the word: one romaji
\* of every node of a path of the graph from the start to the end.  After
\* the key that completes the word the confirmed text is such a spelling.
C30_TextsSpellWord ==
    /\ Continuing =>
         proc.confirmed_nodes_keys \o proc.keys_for_now_node
           \o proc.assumed_keys \in Spellings(proc.word)
    /\ Completing => res.confirmed \in Spellings(proc.word)


\* the locked enemy of en, if there is one in _enemies, has its automaton on
\* the end node
LockedAtEnd(en) ==
    /\ en.inputting_enemy # None
    /\ IndexOf(en, en.inputting_enemy) # 0
    /\ EnemyOf(en, en.inputting_enemy).kp.now_nodes = <<END>>

\* C31: in a frame of battle in which the key that locks an enemy completes
\* its word, the enemy is taken out of _enemies, no enemy is locked
\* afterwards and the point of the enemy is returned and added to the score;
\* after no frame is an enemy locked whose automaton stands on the end node.
C31_FirstKeyCompletes ==
    [][(ev'.path = "battle" /\ bt'.en.err = NoErr) =>
         /\ (ev'.branch = "first_key" /\ ev'.kind = "point") =>
              /\ IndexOf(bt'.en, ev'.target) = 0
              /\ bt'.en.inputting_enemy = None
              /\ ev'.point = point
              /\ bt'.score = bt.score + point
         /\ ~LockedAtEnd(bt'.en)]_vars


\* the frontier of p is the end node
AtEnd(p) == p.now_nodes = <<END>>

\* C32: when the frontier of a KeyProcessor is the end node, its list of
\* acceptable keys is empty but for the 'n' of a set flag, it holds no
\* character of the label of the end node, and a check_key call in such a
\* state is rejected and leaves the KeyProcessor as it was.
C32_NoKeysAtEnd ==
    /\ (AtEnd(proc) /\ proc.err = NoErr) =>
         /\ SeqToSet(proc.accepting_keys)
              = IF proc.allow_n THEN {"n"} ELSE {}
    /\ (AtEnd(prev) /\ prev.err = NoErr /\ res.key # "") =>
         /\ res.isNone
         /\ proc = prev


\* C33: in every state of a HiraTangoSelecter the kanas of
\* _selectable_first_hiras and the keys of _unselectable_first_hiras_dic
\* are disjoint and together the first kanas of the vocabulary, no kana is
\* in _selectable_first_hiras twice and every count of the dict is at
\* least 1.
C33_PoolPartition ==
    hts.err = NoErr =>
        /\ Selectable(hts) \cap DOMAIN hts.unselectable_first_hiras_dic = {}
        /\ Selectable(hts) \cup DOMAIN hts.unselectable_first_hiras_dic
             = SeqToSet(FirstHiras)
        /\ \A h \in DOMAIN hts.selectable_first_hiras :
             hts.selectable_first_hiras[h] <= 1
        /\ \A h \in DOMAIN hts.unselectable_first_hiras_dic :
             hts.unselectable_first_hiras_dic[h] >= 1


C33_Witness ==
    /\ hts.err = NoErr
    /\ htsEv.op = "deregulate"
    /\ htsEv.hira \in DOMAIN htsEv.before.unselectable_first_hiras_dic
    /\ htsEv.hira \in Selectable(hts)
    /\ \E h \in DOMAIN hts.unselectable_first_hiras_dic :
         hts.unselectable_first_hiras_dic[h] = 2


\* deregulate() called for every kana of a list in turn
RECURSIVE DeregulateEach(_, _)
DeregulateEach(s, hs) ==
    IF hs = <<>> THEN s
    ELSE DeregulateEach(deregulate(s, Head(hs)), Tail(hs))

\* the enemy that is locked once the key of the frame e is processed
LockedAfterKey(e) ==
    IF e.branch = "first_key" THEN e.target ELSE e.mid.inputting_enemy

\* the first kanas whose exclusion the frame e has to release when en is
\* Enemies after it: that of the enemy its key locks, then that of every
\* enemy that leaves _enemies in it without ever having been locked
RECURSIVE UnlockedGoneHiras(_, _, _)
UnlockedGoneHiras(e, en, i) ==
    IF i > Len(e.mid.enemies) THEN <<>>
    ELSE (IF IndexOf(en, e.mid.enemies[i].id) = 0
             /\ e.mid.enemies[i].id # LockedAfterKey(e)
          THEN <<e.mid.enemies[i].first_hira>> ELSE <<>>)
         \o UnlockedGoneHiras(e, en, i + 1)

ReleasedHiras(e, en) ==
    (IF e.branch = "first_key"
     THEN <<EnemyOf(e.mid, e.target).first_hira>> ELSE <<>>)
    \o UnlockedGoneHiras(e, en, 1)

\* C34: in every frame of a battle, the last one included, the selecter is
\* changed by exactly one deregulate() call for the first kana of the enemy
\* locked in the frame and one for the first kana of every enemy that is
\* destroyed in it without having been locked, by none for a destroyed
\* enemy that was locked, and none of these calls finds the exclusion count
\* of its kana absent; an enemy that is locked stays the locked one as long
\* as it is in _enemies.
C34_ReleasedOnce ==
    [][(ev'.path \in {"battle", "finish"} /\ ev'.mid.err = NoErr
          /\ ev'.kind # "raised") =>
         /\ bt'.en.err = NoErr
         /\ DeregulateEach(ev'.mid.hira_tango_selecter,
                           ReleasedHiras(ev', bt'.en)).err = NoErr
         /\ bt'.en.hira_tango_selecter
              = DeregulateEach(ev'.mid.hira_tango_selecter,
                               ReleasedHiras(ev', bt'.en))
         /\ (bt.en.inputting_enemy # None
               /\ IndexOf(bt'.en, bt.en.inputting_enemy) # 0) =>
              bt'.en.inputting_enemy = bt.en.inputting_enemy]_vars


C34_Witness ==
    /\ ev.path = "finish"
    /\ bt.en.err = NoErr
    /\ Len(ev.mid.enemies) = 2
    /\ ev.mid.inputting_enemy # None
    /\ IndexOf(ev.mid, ev.mid.inputting_enemy) # 0
    /\ bt.en.enemies = <<>>
    /\ Len(ReleasedHiras(ev, bt.en)) = 1
    /\ bt.en.hira_tango_selecter # ev.mid.hira_tango_selecter


\* C35: over a frame of a battle, the last one included, _inputting_enemy
\* changes from None only to the enemy that the key of the frame is the
\* first key of in _first_keys_dic, an enemy that was not locked before, and
\* from an enemy only to None, and only when that enemy leaves _enemies in
\* the frame; it never changes from one enemy to another.
C35_LockTransitions ==
    [][(ev'.path \in {"battle", "finish"} /\ bt'.en.err = NoErr) =>
         /\ (bt.en.inputting_enemy = None
               /\ bt'.en.inputting_enemy # None) =>
              /\ ev'.branch = "first_key"
              /\ bt'.en.inputting_enemy = ev'.target
              /\ ev'.target # None
              /\ IsUnlocked(ev'.mid, ev'.target)
              /\ IsLocked(bt'.en, ev'.target)
         /\ bt.en.inputting_enemy # None =>
              /\ bt'.en.inputting_enemy \in {None, bt.en.inputting_enemy}
              /\ ev'.branch # "first_key"
              /\ bt'.en.inputting_enemy = None
                   <=> IndexOf(bt'.en, bt.en.inputting_enemy) = 0
         /\ bt'.en.inputting_enemy # None =>
              IndexOf(bt'.en, bt'.en.inputting_enemy) # 0]_vars


C35_Witness ==
    /\ ev.path = "battle"
    /\ bt.en.err = NoErr
    /\ ev.branch = "inputting"
    /\ ev.kind = "point"
    /\ ev.mid.inputting_enemy # None
    /\ bt.en.inputting_enemy = None
    /\ Len(ev.mid.enemies) = 2
    /\ Len(bt.en.enemies) = 1


\* C36: a frame of battle with a key, when Enemies.update returns, has
\* raised exactly one of the two counts of Enemies by exactly one, the correct count when the key is accepted
\* (it locks an enemy, goes on with the locked one or completes its word)
\* and the incorrect count when it is rejected; a frame without a key and
\* the last frame of the battle change neither count, the result screen
\* changes neither, and the restart sets both to 0.
C36_OneTallyPerKey ==
    [][bt'.en.err = NoErr =>
         /\ (ev'.path = "battle" /\ ev'.branch # "no_key"
               /\ ev'.kind \in {"True", "point"}) =>
              /\ bt'.en.correct_count = bt.en.correct_count + 1
              /\ bt'.en.incorrect_count = bt.en.incorrect_count
         /\ (ev'.path = "battle" /\ ev'.branch # "no_key"
               /\ ev'.kind = "False") =>
              /\ bt'.en.correct_count = bt.en.correct_count
              /\ bt'.en.incorrect_count = bt.en.incorrect_count + 1
         /\ (ev'.path \in {"finish", "result"}
               \/ (ev'.path = "battle" /\ ev'.branch = "no_key")) =>
              /\ bt'.en.correct_count = bt.en.correct_count
              /\ bt'.en.incorrect_count = bt.en.incorrect_count
         /\ ev'.path = "restart" =>
              /\ bt'.en.correct_count = 0
              /\ bt'.en.incorrect_count = 0
         /\ ev'.path = "battle" =>
              (ev'.branch = "no_key"
                 <=> bt'.en.correct_count + bt'.en.incorrect_count
                       = bt.en.correct_count + bt.en.incorrect_count)]_vars

C36_Witness ==
    /\ ev.path = "battle"
    /\ bt.en.err = NoErr
    /\ ev.branch = "inputting"
    /\ ev.kind = "point"
    /\ bt.en.correct_count = 3
    /\ bt.en.incorrect_count = 1


\* C37: every check_key call that accepts its key plays the sound of a
\* correct key, the call that takes the 'n' of a set flag included.
C37_AcceptedKeySounds ==
    (res.key # "" /\ ~res.isNone /\ proc.err = NoErr) =>
        res.sound = "correct"


\* C38: after the last frame of a battle, whatever was spawned, locked,
\* typed and destroyed in it, _enemies is empty, _first_keys_dic is empty,
\* no enemy is locked, no kana has an exclusion count and every first kana
\* of the vocabulary is in _selectable_first_hiras; the restart leaves all
\* of this as it is.
C38_FinishReleasesAll ==
    (ev.path \in {"finish", "result", "restart"} /\ bt.en.err = NoErr) =>
        /\ bt.en.enemies = <<>>
        /\ DOMAIN bt.en.first_keys_dic = {}
        /\ bt.en.inputting_enemy = None
        /\ DOMAIN bt.en.hira_tango_selecter.unselectable_first_hiras_dic = {}
        /\ Selectable(bt.en.hira_tango_selecter) = SeqToSet(FirstHiras)


\* C39: the health of the earth is between 0 and its maximum in every
\* state, and the residues handed to the result are never negative.
C39_HealthInRange ==
    /\ bt.health \in 0..MaxHealth
    /\ ev.result.residues >= 0

=============================================================================
